---------------------------- MODULE Spec2Model ----------------------------
(***************************************************************************)
(* A model of lethe.txt: the validators (src/core/validators.py), the      *)
(* mapping vault (src/core/crypto.py), the entity detector                 *)
(* (src/core/entity_detector.py), the anonymizer                           *)
(* (src/core/anonymizer.py) and the two front ends (src/cli.py,            *)
(* src/app.py).                                                            *)
(*                                                                         *)
(* A text is a sequence of one-character strings.  The parts of the        *)
(* program have a specification each, over variables of their own:         *)
(*   SpecValidators   validate_cpf / generate_valid_cpf                    *)
(*   SpecVault        encrypt_mapping / decrypt_mapping                    *)
(*   Spec             Anonymizer: generate_replacements, anonymize,        *)
(*                    reverse                                              *)
(*   SpecDetector     one call of extract_cpfs, extract_birth_dates,       *)
(*                    detect_persons, _generate_adult_date                 *)
(*   SpecFlow         the runs of the front ends: anonymize and reverse    *)
(*                    of the cli and of the app                            *)
(*   SpecGenerators   the four generators of replacements, each called     *)
(*                    on its own                                           *)
(*   SpecProcess      several Anonymizers of one process, which share      *)
(*                    the generators that Anonymizer.__init__ seeds        *)
(***************************************************************************)
EXTENDS Integers, Sequences, FiniteSets, TLC

VARIABLES
    \* ---- validators ----
    cpfKind,     \* how cpfStr was obtained: "none", "generated", "altered", "repeated"
    cpfStr,      \* the string handed to validate_cpf
    cpfOrig,     \* for "altered": the valid CPF that cpfStr was made from
    cpfChecked,  \* whether validate_cpf has run on cpfStr
    cpfValid,    \* what validate_cpf returned
    \* ---- mapping vault ----
    vMapping,    \* the mapping handed to encrypt_mapping (a Python value), or <<>>
    vPassword,   \* the password handed to encrypt_mapping
    blob,        \* the bytes of the encrypted mapping file
    blobOrig,    \* blob as it was first written
    blobOrigin,  \* "none", "encrypt_mapping" or "foreign" (authentic token, other payload)
    blobDamage,  \* "none", "truncated" or "corrupted"
    dPassword,   \* the password handed to decrypt_mapping
    dResult,     \* how decrypt_mapping ended: [kind, value]
    \* ---- anonymizer ----
    selfMapping, \* self.mapping: per category, <<original, replacement>> in insertion order
    op,          \* the last call on the Anonymizer: "init", "anonymize", "generate", "reverse"
    calls,       \* anonymize and generate_replacements calls since construction
    used,        \* tokens of the texts handed to the Anonymizer since construction
    inText,      \* the text of the last call
    entities,    \* what detect_all returned for it
    generated,   \* generator calls made by the last call
    steps,       \* the substitutions of the last anonymize, each with the text before it
    anonymized,  \* the text anonymize returned
    restored,    \* the text reverse returned
    nlp,         \* self.detector._nlp: "None" or "loaded"
    modelFound,  \* whether spacy.load finds the language model
    raised,      \* the exception the last call ended with, or "none"
    \* ---- one call of a detector ----
    detOp,       \* the function called: "init", "extract_cpfs", "extract_birth_dates",
                 \* "detect_persons", "generate_adult_date"
    detText,     \* the text handed to it
    detDocEnts,  \* for detect_persons: the entities of doc.ents, as [label, start, end]
    detResult,   \* what it returned
    detOriginal, \* for generate_adult_date: the detected date handed to it
    detFake,     \* what generate_adult_date returned
    \* ---- the runs of the front ends ----
    fRuns,       \* runs made so far
    fFront,      \* the front end of the last run: "none", "cli" or "app"
    fCmd,        \* what it was asked to do: "none", "anonymize" or "reverse"
    fOutcome,    \* how the run ended: "none", "ok", "warning" or "error"
    fSeed,       \* the seed of the run: << >> for None, <<n>> for the number n
    fText,       \* the text handed to the run
    fEnts,       \* for anonymize: what detect_all found in it
    fMapping,    \* the mapping the run produced or decrypted
    fOutText,    \* the text the run produced
    fDecrypt,    \* for reverse: how decrypt_mapping ended, "not called" if it was not
    fReverseCalled, \* for reverse: whether Anonymizer.reverse was called
    fWrote,      \* the files the run wrote (cli) or offers for download (app)
    fShown,      \* the restored text on the screen after the run, if any
    fSession,    \* st.session_state of the app: reverse_result and anonymize_result
    fKept,       \* what the user keeps of the first anonymize run: text, mapping file, password
    fPrev,       \* the anonymize run before the last one, if any
    \* ---- the generators, each called on its own ----
    gName,       \* what self.faker.name() returned last, << >> before the first call
    gCpf,        \* what generate_valid_cpf() returned last
    gRg,         \* what generate_valid_rg() returned last
    gDate,       \* what _generate_adult_date(original) returned last
    \* ---- one Python process with two Anonymizers ----
    pStarted,    \* whether the process runs
    pFaker,      \* the generator all Faker objects share: [seed, taken]
    pRandom,     \* the generator of the module random: [seed, taken]
    pInst        \* the Anonymizers: [made, seed, ran, text, docEnts, mapping] each

valVars == <<cpfKind, cpfStr, cpfOrig, cpfChecked, cpfValid>>

vaultVars == <<vMapping, vPassword, blob, blobOrig, blobOrigin, blobDamage,
               dPassword, dResult>>

anonVars == <<selfMapping, op, calls, used, inText, entities, generated, steps,
              anonymized, restored, nlp, modelFound, raised>>

detVars == <<detOp, detText, detDocEnts, detResult, detOriginal, detFake>>

flowVars == <<fRuns, fFront, fCmd, fOutcome, fSeed, fText, fEnts, fMapping, fOutText,
              fDecrypt, fReverseCalled, fWrote, fShown, fSession, fKept, fPrev>>

genVars == <<gName, gCpf, gRg, gDate>>

procVars == <<pStarted, pFaker, pRandom, pInst>>

vars == <<valVars, vaultVars, anonVars, detVars, flowVars, genVars, procVars>>

\* what the actions of each part leave alone
notValVars == <<vaultVars, anonVars, detVars, flowVars, genVars, procVars>>

notVaultVars == <<valVars, anonVars, detVars, flowVars, genVars, procVars>>

notAnonVars == <<valVars, vaultVars, detVars, flowVars, genVars, procVars>>

notDetVars == <<valVars, vaultVars, anonVars, flowVars, genVars, procVars>>

notFlowVars == <<valVars, vaultVars, anonVars, detVars, genVars, procVars>>

notGenVars == <<valVars, vaultVars, anonVars, detVars, flowVars, procVars>>

notProcVars == <<valVars, vaultVars, anonVars, detVars, flowVars, genVars>>

(***************************************************************************)
(* Bounds of the model.                                                    *)
(***************************************************************************)
\* The 9 random digits of generate_valid_cpf are any digits in the first
\* MaxVaried positions and one digit, any, repeated in the others.
MaxVaried == 2

\* The longest password, in characters.
MaxPwLen == 2

\* The tokens of all the texts handed to one Anonymizer, together.
MaxTokens == 2

\* The calls of anonymize and generate_replacements on one Anonymizer.
MaxCalls == 2

\* The CPF strings in a text handed to extract_cpfs.
MaxCpfs == 2

\* The entities the language model labels in one text.
MaxEnts == 2

\* The tokens of the document a front end is run on.
MaxFlowTokens == 1

\* The runs of the front ends.
MaxRuns == 3

(***************************************************************************)
(* Characters and sequences.                                               *)
(***************************************************************************)
Digits == <<"0", "1", "2", "3", "4", "5", "6", "7", "8", "9">>

DigitChars == {Digits[n] : n \in 1..10}

IsDigit(c) == c \in DigitChars

\* int(c) of a one-digit string, and str(n) of a one-digit number
int(c) == (CHOOSE n \in 1..10 : Digits[n] = c) - 1

str(n) == Digits[n + 1]

Range(f) == {f[i] : i \in DOMAIN f}

Min(a, b) == IF a < b THEN a ELSE b

Max(a, b) == IF a > b THEN a ELSE b

(***************************************************************************)
(* src/core/validators.py                                                  *)
(***************************************************************************)
\* sum(cpf[i] * (top - i) for i in range(n)), cpf 0-based in the source
RECURSIVE soma(_, _, _)
soma(cpf, n, top) ==
    IF n = 0 THEN 0 ELSE cpf[n] * (top - (n - 1)) + soma(cpf, n - 1, top)

\* 0 if resto < 2 else 11 - resto
digito(resto) == IF resto < 2 THEN 0 ELSE 11 - resto

\* validate_cpf without the test for eleven equal digits
validate_cpf_no_repeat_test(cpf) ==
    LET clean == SelectSeq(cpf, IsDigit)
    IN  IF Len(clean) # 11 THEN FALSE
        ELSE LET d == [i \in 1..11 |-> int(clean[i])]
             IN  /\ d[10] = digito(soma(d, 9, 10) % 11)
                 /\ d[11] = digito(soma(d, 10, 11) % 11)

validate_cpf(cpf) ==
    LET clean == SelectSeq(cpf, IsDigit)          \* re.sub(r'\D', '', cpf)
    IN  IF Len(clean) # 11 THEN FALSE
        ELSE IF \A i \in 1..11 : clean[i] = clean[1] THEN FALSE
        ELSE LET d == [i \in 1..11 |-> int(clean[i])]
                 digito1 == digito(soma(d, 9, 10) % 11)
             IN  IF d[10] # digito1 THEN FALSE
                 ELSE d[11] = digito(soma(d, 10, 11) % 11)

\* generate_valid_cpf, rnd being the 9 values random.randint(0, 9) returned
generate_valid_cpf(rnd) ==
    LET cpf10 == Append(rnd, digito(soma(rnd, 9, 10) % 11))
        cpf11 == Append(cpf10, digito(soma(cpf10, 10, 11) % 11))
        cpf_str == [i \in 1..11 |-> str(cpf11[i])]
    IN  SubSeq(cpf_str, 1, 3) \o <<".">> \o SubSeq(cpf_str, 4, 6) \o <<".">>
            \o SubSeq(cpf_str, 7, 9) \o <<"-">> \o SubSeq(cpf_str, 10, 11)

(***************************************************************************)
(* The validators' specification: an input reaches validate_cpf from the   *)
(* generator, from a valid CPF with one check digit changed, or as eleven  *)
(* equal digits.                                                           *)
(***************************************************************************)
\* what [random.randint(0, 9) for _ in range(9)] returns, within MaxVaried
RandomDigits ==
    { [i \in 1..9 |-> IF i <= MaxVaried THEN f[i] ELSE b] :
        f \in [1..MaxVaried -> 0..9], b \in 0..9 }

\* the index in s of its k-th digit
RECURSIVE DigitIndex(_, _, _)
DigitIndex(s, k, from) ==
    IF IsDigit(s[from])
    THEN IF k = 1 THEN from ELSE DigitIndex(s, k - 1, from + 1)
    ELSE DigitIndex(s, k, from + 1)

ValStart ==
    /\ cpfKind = "none"
    /\ cpfStr = << >>
    /\ cpfOrig = << >>
    /\ cpfChecked = FALSE
    /\ cpfValid = FALSE

\* generate_valid_cpf()
GenerateValidCpf ==
    /\ cpfKind = "none"
    /\ \E rnd \in RandomDigits :
          cpfStr' = generate_valid_cpf(rnd)
    /\ cpfKind' = "generated"
    /\ cpfChecked' = FALSE
    /\ cpfValid' = FALSE
    /\ UNCHANGED <<cpfOrig, notValVars>>

\* the punctuation of a generated CPF removed: the same CPF, digits only
StripGenerated ==
    /\ cpfKind = "generated"
    /\ ~cpfChecked
    /\ Len(cpfStr) = 14
    /\ cpfStr' = SelectSeq(cpfStr, IsDigit)
    /\ UNCHANGED <<cpfKind, cpfOrig, cpfChecked, cpfValid, notValVars>>

\* validate_cpf on a CPF it accepted, with check digit 10 or 11 changed
AlterCheckDigit ==
    /\ cpfKind = "generated"
    /\ cpfChecked
    /\ cpfValid
    /\ \E k \in {10, 11}, n \in 0..9 :
          LET i == DigitIndex(cpfStr, k, 1)
          IN  /\ str(n) # cpfStr[i]
              /\ cpfStr' = [cpfStr EXCEPT ![i] = str(n)]
    /\ cpfOrig' = cpfStr
    /\ cpfKind' = "altered"
    /\ cpfChecked' = TRUE
    /\ cpfValid' = validate_cpf(cpfStr')
    /\ UNCHANGED notValVars

\* eleven times the same digit, bare or punctuated
RepeatedDigitInput ==
    /\ cpfKind = "none"
    /\ \E n \in 0..9, punctuated \in BOOLEAN :
          LET c == str(n)
          IN  cpfStr' = IF punctuated
                        THEN <<c, c, c, ".", c, c, c, ".", c, c, c, "-", c, c>>
                        ELSE [i \in 1..11 |-> c]
    /\ cpfKind' = "repeated"
    /\ cpfChecked' = FALSE
    /\ cpfValid' = FALSE
    /\ UNCHANGED <<cpfOrig, notValVars>>

\* validate_cpf(cpfStr)
ValidateCpf ==
    /\ cpfKind # "none"
    /\ ~cpfChecked
    /\ cpfValid' = validate_cpf(cpfStr)
    /\ cpfChecked' = TRUE
    /\ UNCHANGED <<cpfKind, cpfStr, cpfOrig, notValVars>>

ValNext ==
    \/ GenerateValidCpf
    \/ StripGenerated
    \/ AlterCheckDigit
    \/ RepeatedDigitInput
    \/ ValidateCpf

(***************************************************************************)
(* Claims about the validators.                                            *)
(***************************************************************************)
\* C8: every value generate_valid_cpf can return, for every choice of its 9
\* random digits, satisfies validate_cpf.
C8_GeneratedCpfIsValid ==
    (cpfKind = "generated" /\ cpfChecked) => cpfValid

\* C9: validate_cpf rejects every string of eleven equal digits, and every
\* string obtained from a valid CPF by changing exactly one of its two check
\* digits to a different digit.
C9_RejectsRepeatedAndAltered ==
    (cpfKind \in {"repeated", "altered"} /\ cpfChecked) => ~cpfValid

\* validate_cpf has run on a valid punctuated CPF whose last digit, and only
\* it, was changed
C9_Witness ==
    /\ cpfKind = "altered"
    /\ cpfChecked
    /\ Len(cpfStr) = 14
    /\ validate_cpf(cpfOrig)
    /\ cpfStr[14] # cpfOrig[14]
    /\ SubSeq(cpfStr, 1, 13) = SubSeq(cpfOrig, 1, 13)

(***************************************************************************)
(* Characters and bytes (str.encode, bytes.decode).  A character is a      *)
(* one-character string; "NUL" stands for the character U+0000.            *)
(***************************************************************************)
CodePoints ==
    << <<"NUL", 0>>, <<"\n", 10>>, <<" ", 32>>, <<"\"", 34>>, <<",", 44>>,
       <<"-", 45>>, <<".", 46>>, <<"/", 47>>,
       <<"0", 48>>, <<"1", 49>>, <<"2", 50>>, <<"3", 51>>, <<"4", 52>>,
       <<"5", 53>>, <<"6", 54>>, <<"7", 55>>, <<"8", 56>>, <<"9", 57>>,
       <<":", 58>>, <<"A", 65>>, <<"B", 66>>, <<"X", 88>>, <<"Y", 89>>,
       <<"[", 91>>, <<"\\", 92>>, <<"]", 93>>,
       <<"a", 97>>, <<"b", 98>>, <<"c", 99>>, <<"d", 100>>, <<"e", 101>>,
       <<"f", 102>>, <<"g", 103>>, <<"l", 108>>, <<"n", 110>>, <<"o", 111>>,
       <<"p", 112>>, <<"r", 114>>, <<"s", 115>>, <<"t", 116>>, <<"u", 117>>,
       <<"x", 120>>, <<"y", 121>>,
       <<"{", 123>>, <<"}", 125>>, <<"é", 233>> >>

Chars == {CodePoints[i][1] : i \in DOMAIN CodePoints}

OrdTable == [c \in Chars |-> (CHOOSE i \in DOMAIN CodePoints : CodePoints[i][1] = c)]

ord(c) == CodePoints[OrdTable[c]][2]

chr(n) == CodePoints[CHOOSE i \in DOMAIN CodePoints : CodePoints[i][2] = n][1]

\* str.encode('utf-8'), for code points below U+0800
RECURSIVE utf8_encode(_)
utf8_encode(s) ==
    IF s = << >> THEN << >>
    ELSE LET n == ord(Head(s))
         IN  (IF n < 128 THEN <<n>> ELSE <<192 + (n \div 64), 128 + (n % 64)>>)
                 \o utf8_encode(Tail(s))

\* bytes.decode('utf-8'): [ok |-> FALSE] is UnicodeDecodeError.  One- and
\* two-byte sequences; any other lead byte is taken as undecodable.
\* (acc is never longer than b)
RECURSIVE utf8_decode_from(_, _, _)
utf8_decode_from(b, i, acc) ==
    IF i > Len(b) \/ Len(acc) > Len(b) THEN [ok |-> TRUE, str |-> acc]
    ELSE IF b[i] < 128 THEN utf8_decode_from(b, i + 1, Append(acc, chr(b[i])))
    ELSE IF b[i] \in 194..223 /\ i < Len(b) /\ b[i + 1] \in 128..191
    THEN utf8_decode_from(b, i + 2, Append(acc, chr((b[i] - 192) * 64 + (b[i + 1] - 128))))
    ELSE [ok |-> FALSE, str |-> << >>]

utf8_decode(b) == utf8_decode_from(b, 1, << >>)

(***************************************************************************)
(* Python values as json reads and writes them:                            *)
(*   <<"str", chars>>   <<"dict", <<key, value>> items in insertion order>>*)
(*   <<"list", items>>  <<"int", n>>   <<"const", "true"|"false"|"null">>  *)
(***************************************************************************)
PyStr(s) == <<"str", s>>

PyDict(items) == <<"dict", items>>

\* d[key] = value on the items of a dict
DictSet(items, key, value) ==
    IF \E i \in DOMAIN items : items[i][1] = key
    THEN [i \in DOMAIN items |->
             IF items[i][1] = key THEN <<key, value>> ELSE items[i]]
    ELSE Append(items, <<key, value>>)

HexDigits == <<"0", "1", "2", "3", "4", "5", "6", "7", "8", "9",
               "a", "b", "c", "d", "e", "f">>

\* py_encode_basestring with the quotation mark left as it is
EscapeChar_quote_unescaped(c) ==
    IF c = "\\" THEN <<"\\", "\\">>
    ELSE IF c = "\n" THEN <<"\\", "n">>
    ELSE IF ord(c) < 32
    THEN <<"\\", "u", "0", "0", HexDigits[(ord(c) \div 16) + 1], HexDigits[(ord(c) % 16) + 1]>>
    ELSE <<c>>

\* json.encoder.py_encode_basestring: one character of a string, escaped
EscapeChar(c) ==
    IF c = "\"" THEN <<"\\", "\"">>
    ELSE IF c = "\\" THEN <<"\\", "\\">>
    ELSE IF c = "\n" THEN <<"\\", "n">>
    ELSE IF ord(c) < 32
    THEN <<"\\", "u", "0", "0", HexDigits[(ord(c) \div 16) + 1], HexDigits[(ord(c) % 16) + 1]>>
    ELSE <<c>>

RECURSIVE EscapeAll(_)
EscapeAll(s) ==
    IF s = << >> THEN << >> ELSE EscapeChar(Head(s)) \o EscapeAll(Tail(s))

JsonString(s) == <<"\"">> \o EscapeAll(s) \o <<"\"">>

RECURSIVE DecimalDigits(_)
DecimalDigits(n) ==
    IF n < 10 THEN <<str(n)>> ELSE Append(DecimalDigits(n \div 10), str(n % 10))

\* json.dumps(v, ensure_ascii=False), with the default separators ', ' and ': '
RECURSIVE json_dumps(_)
RECURSIVE DumpItems(_, _, _)
DumpItems(items, i, isDict) ==
    IF i > Len(items) THEN << >>
    ELSE (IF i > 1 THEN <<",", " ">> ELSE << >>)
         \o (IF isDict
             THEN JsonString(items[i][1]) \o <<":", " ">> \o json_dumps(items[i][2])
             ELSE json_dumps(items[i]))
         \o DumpItems(items, i + 1, isDict)

json_dumps(v) ==
    IF v[1] = "str" THEN JsonString(v[2])
    ELSE IF v[1] = "dict" THEN <<"{">> \o DumpItems(v[2], 1, TRUE) \o <<"}">>
    ELSE IF v[1] = "list" THEN <<"[">> \o DumpItems(v[2], 1, FALSE) \o <<"]">>
    ELSE IF v[1] = "int"
    THEN (IF v[2] < 0 THEN <<"-">> \o DecimalDigits(-v[2]) ELSE DecimalDigits(v[2]))
    ELSE IF v[2] = "true" THEN <<"t", "r", "u", "e">>
    ELSE IF v[2] = "false" THEN <<"f", "a", "l", "s", "e">>
    ELSE <<"n", "u", "l", "l">>

(***************************************************************************)
(* json.loads: [ok |-> FALSE] is JSONDecodeError.  Numbers are integers    *)
(* (no payload of the model holds a fraction, an exponent or NaN).         *)
(***************************************************************************)
JsonFail == [ok |-> FALSE, val |-> << >>, pos |-> 0]

JsonGot(v, j) == [ok |-> TRUE, val |-> v, pos |-> j]

RECURSIVE SkipWs(_, _)
SkipWs(t, i) ==
    IF i <= Len(t) /\ t[i] \in {" ", "\t", "\n", "\r"} THEN SkipWs(t, i + 1) ELSE i

Match(t, i, lit) ==
    /\ i + Len(lit) - 1 <= Len(t)
    /\ SubSeq(t, i, i + Len(lit) - 1) = lit

HexUpper == <<"0", "1", "2", "3", "4", "5", "6", "7", "8", "9",
              "A", "B", "C", "D", "E", "F">>

IsHex(c) == \E n \in 1..16 : HexDigits[n] = c \/ HexUpper[n] = c

HexVal(c) == (CHOOSE n \in 1..16 : HexDigits[n] = c \/ HexUpper[n] = c) - 1

\* json.decoder.BACKSLASH: the character an escape letter stands for ("BS"
\* and "FF" stand for U+0008 and U+000C)
Unescape(c) ==
    IF c = "b" THEN "BS" ELSE IF c = "f" THEN "FF" ELSE IF c = "n" THEN "\n"
    ELSE IF c = "r" THEN "\r" ELSE IF c = "t" THEN "\t" ELSE c

\* json.decoder.py_scanstring (strict): t[i] follows the opening quote
RECURSIVE scanstring(_, _, _)
scanstring(t, i, acc) ==
    IF i > Len(t) THEN JsonFail
    ELSE IF t[i] = "\"" THEN JsonGot(PyStr(acc), i + 1)
    ELSE IF t[i] = "\\"
    THEN IF i + 1 > Len(t) THEN JsonFail
         ELSE IF t[i + 1] = "u"
         THEN IF i + 5 <= Len(t) /\ \A k \in (i + 2)..(i + 5) : IsHex(t[k])
              THEN scanstring(t, i + 6,
                       Append(acc, chr(HexVal(t[i + 2]) * 4096 + HexVal(t[i + 3]) * 256
                                       + HexVal(t[i + 4]) * 16 + HexVal(t[i + 5]))))
              ELSE JsonFail
         ELSE IF t[i + 1] \in {"\"", "\\", "/", "b", "f", "n", "r", "t"}
         THEN scanstring(t, i + 2, Append(acc, Unescape(t[i + 1])))
         ELSE JsonFail
    ELSE IF t[i] \in {"NUL", "\n", "\r", "\t"} THEN JsonFail   \* control character
    ELSE scanstring(t, i + 1, Append(acc, t[i]))

RECURSIVE ScanDigits(_, _, _)
ScanDigits(t, i, n) ==
    IF i <= Len(t) /\ IsDigit(t[i]) THEN ScanDigits(t, i + 1, 10 * n + int(t[i]))
    ELSE JsonGot(<<"int", n>>, i)

\* json.scanner NUMBER_RE, the integer part: -?(0|[1-9]\d*)
ScanNumber(t, i) ==
    LET neg == t[i] = "-"
        j == IF neg THEN i + 1 ELSE i
    IN  IF j > Len(t) \/ ~IsDigit(t[j]) THEN JsonFail
        ELSE LET r == IF t[j] = "0" THEN JsonGot(<<"int", 0>>, j + 1)
                      ELSE ScanDigits(t, j, 0)
             IN  IF neg THEN JsonGot(<<"int", -r.val[2]>>, r.pos) ELSE r

RECURSIVE scan_once(_, _)
RECURSIVE JSONObjectMembers(_, _, _)
RECURSIVE JSONArrayItems(_, _, _)

\* json.decoder.JSONObject: t[i] is the quote that opens a key
JSONObjectMembers(t, i, items) ==
    LET k == scanstring(t, i + 1, << >>)
    IN  IF ~k.ok THEN JsonFail
        ELSE LET c == SkipWs(t, k.pos)
             IN  IF c > Len(t) \/ t[c] # ":" THEN JsonFail
                 ELSE LET v == scan_once(t, SkipWs(t, c + 1))
                      IN  IF ~v.ok THEN JsonFail
                          ELSE LET e == SkipWs(t, v.pos)
                                   items2 == DictSet(items, k.val[2], v.val)
                               IN  IF e > Len(t) THEN JsonFail
                                   ELSE IF t[e] = "}" THEN JsonGot(PyDict(items2), e + 1)
                                   ELSE IF t[e] # "," THEN JsonFail
                                   ELSE LET n == SkipWs(t, e + 1)
                                        IN  IF n > Len(t) \/ t[n] # "\"" THEN JsonFail
                                            ELSE JSONObjectMembers(t, n, items2)

\* json.decoder.JSONArray: t[i] starts an item
JSONArrayItems(t, i, items) ==
    LET v == scan_once(t, i)
    IN  IF ~v.ok THEN JsonFail
        ELSE LET e == SkipWs(t, v.pos)
                 items2 == Append(items, v.val)
             IN  IF e > Len(t) THEN JsonFail
                 ELSE IF t[e] = "]" THEN JsonGot(<<"list", items2>>, e + 1)
                 ELSE IF t[e] # "," THEN JsonFail
                 ELSE JSONArrayItems(t, SkipWs(t, e + 1), items2)

\* json.scanner.py_make_scanner: _scan_once
scan_once(t, i) ==
    IF i > Len(t) THEN JsonFail
    ELSE IF t[i] = "\"" THEN scanstring(t, i + 1, << >>)
    ELSE IF t[i] = "{"
    THEN LET j == SkipWs(t, i + 1)
         IN  IF j > Len(t) THEN JsonFail
             ELSE IF t[j] = "}" THEN JsonGot(PyDict(<< >>), j + 1)
             ELSE IF t[j] # "\"" THEN JsonFail
             ELSE JSONObjectMembers(t, j, << >>)
    ELSE IF t[i] = "["
    THEN LET j == SkipWs(t, i + 1)
         IN  IF j > Len(t) THEN JsonFail
             ELSE IF t[j] = "]" THEN JsonGot(<<"list", << >>>>, j + 1)
             ELSE JSONArrayItems(t, j, << >>)
    ELSE IF Match(t, i, <<"n", "u", "l", "l">>) THEN JsonGot(<<"const", "null">>, i + 4)
    ELSE IF Match(t, i, <<"t", "r", "u", "e">>) THEN JsonGot(<<"const", "true">>, i + 4)
    ELSE IF Match(t, i, <<"f", "a", "l", "s", "e">>) THEN JsonGot(<<"const", "false">>, i + 5)
    ELSE IF t[i] = "-" \/ IsDigit(t[i]) THEN ScanNumber(t, i)
    ELSE JsonFail

\* json.loads(t): JSONDecoder.decode
json_loads(t) ==
    LET r == scan_once(t, SkipWs(t, 1))
    IN  IF ~r.ok THEN JsonFail
        ELSE IF SkipWs(t, r.pos) # Len(t) + 1 THEN JsonFail      \* Extra data
        ELSE r

(***************************************************************************)
(* The vault's cryptography, symbolically.  A derived key is the term      *)
(* <<"pbkdf2", HMAC key block of the password, salt>>: PBKDF2-HMAC sees    *)
(* the password only through HMAC's key block, and distinct terms stand    *)
(* for distinct keys.  A Fernet token is the sequence of its fields        *)
(*   <<"ver">>  <<"ts", t>>  <<"iv", n>>  <<"aes", key, iv, plaintext>>    *)
(*   <<"hmac", key, signed fields>>                                        *)
(* and <<"garbage", n>> stands for n bytes that are none of these.  The    *)
(* token's base64 text has <<"d", field>> for the characters of a field,   *)
(* then, when the fields' length is not a multiple of 3, <<"last", real,   *)
(* unused>> for the last data character (whether the bits it carries are   *)
(* the encoder's, and the value of its unused low bits) and <<"=">> for    *)
(* each padding character; <<"junk">> is a byte outside the alphabet.      *)
(***************************************************************************)
SaltLen == 16

HmacBlockLen == 64

RECURSIVE StripZeros(_)
StripZeros(k) ==
    IF k # << >> /\ k[Len(k)] = 0 THEN StripZeros(SubSeq(k, 1, Len(k) - 1)) ELSE k

\* HMAC's key block: the key zero-padded to the hash's block length, or its
\* digest when it is longer.  A padded key is written without the zero bytes
\* that end it, which is the same block.
HmacKeyBlock(k) ==
    IF Len(k) > HmacBlockLen THEN <<"sha256", k>> ELSE <<"raw", StripZeros(k)>>

\* a key derivation that leaves the password out
derive_key_without_password(password, salt) == <<"pbkdf2", <<"raw", << >>>>, salt>>

derive_key(password, salt) ==
    <<"pbkdf2", HmacKeyBlock(utf8_encode(password)), salt>>

signing_key(key) == <<"signing", key>>

encryption_key(key) == <<"encryption", key>>

\* the length in bytes of a field of a token
UnitLen(u) ==
    IF u[1] = "ver" THEN 1
    ELSE IF u[1] = "ts" THEN 8
    ELSE IF u[1] = "iv" THEN 16
    ELSE IF u[1] = "aes" THEN 16 * ((Len(u[4]) \div 16) + 1)     \* PKCS7 padding
    ELSE IF u[1] = "hmac" THEN 32
    ELSE u[2]

RECURSIVE RawLen(_)
RawLen(units) ==
    IF units = << >> THEN 0 ELSE UnitLen(Head(units)) + RawLen(Tail(units))

\* the number of "=" that end the base64 text of n bytes
Padding(n) == (3 - (n % 3)) % 3

urlsafe_b64encode(units) ==
    [i \in 1..Len(units) |-> <<"d", units[i]>>]
        \o (IF Padding(RawLen(units)) = 0 THEN << >>
            ELSE << <<"last", TRUE, 0>> >>
                     \o [i \in 1..Padding(RawLen(units)) |-> <<"=">>])

RECURSIVE DataPrefixLen(_, _)
DataPrefixLen(t, i) ==
    IF i <= Len(t) /\ t[i][1] = "d" THEN DataPrefixLen(t, i + 1) ELSE i - 1

IsJunk(c) == c[1] = "junk"

NotJunk(c) == ~IsJunk(c)

\* base64.urlsafe_b64decode: bytes outside the alphabet are discarded, the
\* unused bits of the last character are ignored; [ok |-> FALSE] is
\* binascii.Error
urlsafe_b64decode(text) ==
    LET t == SelectSeq(text, NotJunk)
        n == DataPrefixLen(t, 1)
        units == [i \in 1..n |-> t[i][2]]
        p == Padding(RawLen(units))
        rest == SubSeq(t, n + 1, Len(t))
    IN  IF p = 0
        THEN [ok |-> rest = << >>, units |-> IF rest = << >> THEN units ELSE << >>]
        ELSE IF /\ Len(rest) = p + 1
                /\ rest[1][1] = "last"
                /\ \A i \in 2..(p + 1) : rest[i][1] = "="
        THEN [ok |-> TRUE,
              units |-> IF rest[1][2] THEN units
                        ELSE [units EXCEPT ![n] = <<"garbage", UnitLen(units[n])>>]]
        ELSE [ok |-> FALSE, units |-> << >>]

\* Fernet(key).encrypt(data), at time now and with the random bytes iv
fernet_encrypt(key, data, now, iv) ==
    LET basic_parts == << <<"ver">>, <<"ts", now>>, <<"iv", iv>>,
                          <<"aes", encryption_key(key), iv, data>> >>
    IN  urlsafe_b64encode(Append(basic_parts,
                                 <<"hmac", signing_key(key), basic_parts>>))

InvalidToken == [ok |-> FALSE, data |-> << >>]

\* the ciphertext of an authentic token, decrypted: AES-CBC under the IV
\* field and PKCS7 unpadding
fernet_decrypt_data(key, parts) ==
    IF /\ Len(parts) = 4
       /\ parts[3][1] = "iv"
       /\ parts[4][1] = "aes"
       /\ parts[4][2] = encryption_key(key)
       /\ parts[4][3] = parts[3][2]
    THEN [ok |-> TRUE, data |-> parts[4][4]]
    ELSE InvalidToken

\* Fernet.decrypt without the signature check
fernet_decrypt_unverified(key, token) ==
    LET d == urlsafe_b64decode(token)
    IN  IF ~d.ok \/ d.units = << >> THEN InvalidToken
        ELSE fernet_decrypt_data(key, SubSeq(d.units, 1, 4))

\* Fernet(key).decrypt(token), no ttl
fernet_decrypt(key, token) ==
    LET d == urlsafe_b64decode(token)
        n == Len(d.units)
    IN  IF ~d.ok THEN InvalidToken
        ELSE IF d.units = << >> THEN InvalidToken
        ELSE IF d.units[1] # <<"ver">> THEN InvalidToken
        ELSE IF RawLen(d.units) < 9 THEN InvalidToken
        ELSE IF d.units[n] # <<"hmac", signing_key(key), SubSeq(d.units, 1, n - 1)>>
        THEN InvalidToken                                   \* _verify_signature
        ELSE fernet_decrypt_data(key, SubSeq(d.units, 1, n - 1))

(***************************************************************************)
(* src/core/crypto.py                                                      *)
(***************************************************************************)
\* encrypt_mapping(mapping, password), with what os.urandom and the clock
\* gave it
encrypt_mapping(mapping, password, salt, now, iv) ==
    LET key == derive_key(password, salt)
        json_data == utf8_encode(json_dumps(mapping))
        encrypted == fernet_encrypt(key, json_data, now, iv)
    IN  salt \o encrypted

\* how a call ends: with a value, or with an exception and its message
Returned(v) == [kind |-> "returned", exc |-> "", msg |-> "", value |-> v]

Raised(e, m) == [kind |-> "raised", exc |-> e, msg |-> m, value |-> << >>]

NotCalled == [kind |-> "none", exc |-> "", msg |-> "", value |-> << >>]

AuthError == Raised("ValueError", "Senha incorreta ou dados corrompidos")

CorruptError == Raised("ValueError", "Dados corrompidos - não é JSON válido")

decrypt_mapping(encrypted_data, password) ==
    LET salt == SubSeq(encrypted_data, 1, Min(SaltLen, Len(encrypted_data)))
        encrypted == SubSeq(encrypted_data, SaltLen + 1, Len(encrypted_data))
        key == derive_key(password, salt)
        decrypted == fernet_decrypt(key, encrypted)
    IN  IF ~decrypted.ok THEN AuthError
        ELSE LET text == utf8_decode(decrypted.data)
             IN  IF ~text.ok THEN Raised("UnicodeDecodeError", "")
                 ELSE LET v == json_loads(text.str)
                      IN  IF ~v.ok THEN CorruptError ELSE Returned(v.val)

(***************************************************************************)
(* The inputs of the vault.                                                *)
(***************************************************************************)
SeqsOver(S, lo, hi) == UNION {[1..n -> S] : n \in lo..hi}

\* non-empty passwords; "NUL" is the character U+0000
Passwords == SeqsOver({"p", "NUL"}, 1, MaxPwLen)

\* a mapping: the four categories, each a table of originals to replacements
Mapping(persons, cpfs, rgs, dates) ==
    PyDict(<< <<<<"p", "e", "r", "s", "o", "n", "s">>, PyDict(persons)>>,
              <<<<"c", "p", "f", "s">>, PyDict(cpfs)>>,
              <<<<"r", "g", "s">>, PyDict(rgs)>>,
              <<<<"d", "a", "t", "e", "s">>, PyDict(dates)>> >>)

Pair(k, v) == <<k, PyStr(v)>>

\* the empty mapping, and mappings whose strings hold the characters json
\* escapes and a character UTF-8 encodes in two bytes
Mappings ==
    { Mapping(<< >>, << >>, << >>, << >>),
      Mapping(<<Pair(<<"a", "\"", "b">>, <<"é", "\\">>)>>, << >>, << >>,
              <<Pair(<<"1", "/", "2">>, <<"\n">>)>>),
      Mapping(<<Pair(<<"A", " ", "B">>, <<"X", "é">>), Pair(<<"a">>, <<"NUL", "x">>)>>,
              <<Pair(<<"1", ".", "2", "-", "3">>, <<"4", ".", "5", "-", "6">>)>>,
              << >>, << >>) }

\* payloads that are not a serialized mapping: [], {, {"persons": 1}, "x",
\* {"persons": {}} and a byte that is not UTF-8
ForeignPayloads ==
    { utf8_encode(<<"[", "]">>),
      utf8_encode(<<"{">>),
      utf8_encode(json_dumps(PyDict(<< <<<<"p", "e", "r", "s", "o", "n", "s">>, <<"int", 1>>>> >>))),
      utf8_encode(json_dumps(PyStr(<<"x">>))),
      utf8_encode(json_dumps(PyDict(<< <<<<"p", "e", "r", "s", "o", "n", "s">>, PyDict(<< >>)>> >>))),
      <<255>> }

\* os.urandom(16), as salt: sixteen bytes, the first of them any of two
Salts == {[i \in 1..SaltLen |-> <<"b", IF i = 1 THEN n ELSE 0>>] : n \in 0..1}

\* os.urandom(16), as the IV of a token
IVs == 0..1

(***************************************************************************)
(* The life of one vault file: it is written by encrypt_mapping (or by     *)
(* another writer that holds the password), it may be damaged once, and    *)
(* decrypt_mapping reads it, before the damage or after it.                *)
(***************************************************************************)
VaultStart ==
    /\ vMapping = << >>
    /\ vPassword = << >>
    /\ blob = << >>
    /\ blobOrig = << >>
    /\ blobOrigin = "none"
    /\ blobDamage = "none"
    /\ dPassword = << >>
    /\ dResult = NotCalled

\* save_encrypted_mapping: encrypt_mapping(mapping, password) written to a file
EncryptMapping ==
    /\ blobOrigin = "none"
    /\ \E m \in Mappings, pw \in Passwords, salt \in Salts, iv \in IVs :
          /\ vMapping' = m
          /\ vPassword' = pw
          /\ blob' = encrypt_mapping(m, pw, salt, 0, iv)
    /\ blobOrig' = blob'
    /\ blobOrigin' = "encrypt_mapping"
    /\ blobDamage' = "none"
    /\ dPassword' = << >>
    /\ dResult' = NotCalled
    /\ UNCHANGED notVaultVars

\* a file in the vault's format, under a key derived from the password, whose
\* payload is not a serialized mapping
ForeignBlob ==
    /\ blobOrigin = "none"
    /\ \E payload \in ForeignPayloads, pw \in Passwords, salt \in Salts :
          /\ vPassword' = pw
          /\ blob' = salt \o fernet_encrypt(derive_key(pw, salt), payload, 0, 0)
    /\ vMapping' = << >>
    /\ blobOrig' = blob'
    /\ blobOrigin' = "foreign"
    /\ blobDamage' = "none"
    /\ dPassword' = << >>
    /\ dResult' = NotCalled
    /\ UNCHANGED notVaultVars

\* what a byte of the tail can be overwritten with: other bits in the last
\* character's unused bits, another character of the alphabet, a byte outside it
Overwritten(c) ==
    (IF c[1] = "last" THEN {<<"last", c[2], 1 - c[3]>>, <<"last", ~c[2], c[3]>>} ELSE {})
    \cup (IF c[1] = "d" THEN {<<"d", <<"garbage", UnitLen(c[2])>>>>} ELSE {})
    \cup (IF c[1] = "=" THEN {<<"d", <<"garbage", 0>>>>} ELSE {})
    \cup {<<"junk">>}

\* the file, with bytes after the salt overwritten
CorruptTail ==
    /\ blobOrigin # "none"
    /\ blobDamage = "none"
    /\ \E i \in (SaltLen + 1)..Len(blob) :
          \E c \in Overwritten(blob[i]) : blob' = [blob EXCEPT ![i] = c]
    /\ blobDamage' = "corrupted"
    /\ dPassword' = << >>
    /\ dResult' = NotCalled
    /\ UNCHANGED <<vMapping, vPassword, blobOrig, blobOrigin>>
    /\ UNCHANGED notVaultVars

\* the file, cut short
TruncateBlob ==
    /\ blobOrigin # "none"
    /\ blobDamage = "none"
    /\ \E n \in 0..(Len(blob) - 1) : blob' = SubSeq(blob, 1, n)
    /\ blobDamage' = "truncated"
    /\ dPassword' = << >>
    /\ dResult' = NotCalled
    /\ UNCHANGED <<vMapping, vPassword, blobOrig, blobOrigin>>
    /\ UNCHANGED notVaultVars

\* load_encrypted_mapping: decrypt_mapping(the file's bytes, password)
DecryptMapping ==
    /\ dResult = NotCalled
    /\ \E pw \in Passwords :
          /\ dPassword' = pw
          /\ dResult' = decrypt_mapping(blob, pw)
    /\ UNCHANGED <<vMapping, vPassword, blob, blobOrig, blobOrigin, blobDamage>>
    /\ UNCHANGED notVaultVars

VaultNext ==
    \/ EncryptMapping
    \/ ForeignBlob
    \/ CorruptTail
    \/ TruncateBlob
    \/ DecryptMapping

(***************************************************************************)
(* Claims about the vault (SpecVault).                                     *)
(***************************************************************************)
\* decrypt_mapping has run on the file
Decrypted == dResult.kind # "none"

\* the file is as encrypt_mapping wrote it
IntactBlob == blobOrigin = "encrypt_mapping" /\ blobDamage = "none"

\* C4: for any mapping and any non-empty password pw,
\* decrypt_mapping(encrypt_mapping(mapping, pw), pw) returns a mapping equal
\* to the original mapping.
C4_RoundTrip ==
    (IntactBlob /\ Decrypted /\ dPassword = vPassword) => dResult = Returned(vMapping)

\* a mapping with a name that holds a quotation mark came back from its blob
C4_Witness ==
    /\ IntactBlob
    /\ dPassword = vPassword
    /\ dResult = Returned(vMapping)
    /\ \E i \in DOMAIN vMapping[2][1][2][2] : "\"" \in Range(vMapping[2][1][2][2][i][1])

SameKeyBlock(pw1, pw2) ==
    HmacKeyBlock(utf8_encode(pw1)) = HmacKeyBlock(utf8_encode(pw2))

DamagedBlobRead ==
    /\ blobDamage # "none"
    /\ Decrypted
    /\ (Len(blob) < SaltLen \/ blobOrigin = "encrypt_mapping")

OnlyUnusedBitsDiffer ==
    /\ Len(blob) = Len(blobOrig)
    /\ \A i \in DOMAIN blob :
          blob[i] # blobOrig[i] =>
              /\ blob[i][1] = "last"
              /\ blobOrig[i][1] = "last"
              /\ blob[i][2] = blobOrig[i][2]

AuthenticatedDecryption ==
    fernet_decrypt(derive_key(dPassword, SubSeq(blob, 1, Min(SaltLen, Len(blob)))),
                   SubSeq(blob, SaltLen + 1, Len(blob))).ok

\* C7: when authenticated decryption succeeds but the decrypted bytes are not
\* a well-formed serialized mapping, decrypt_mapping fails with the
\* corrupt-data error, which is not the authentication error, and returns
\* no value.
C7_NotAMappingIsCorruptError ==
    (blobOrigin = "foreign" /\ Decrypted /\ AuthenticatedDecryption) =>
        (dResult = CorruptError /\ CorruptError # AuthError)

(***************************************************************************)
(* Regular expressions of src/core/validators.py.  A pattern is a sequence *)
(* of atoms: "d" is \d, "dX" is [\dXx], any other atom is that character.  *)
(* A pattern with \d{1,2} is the two patterns it stands for, the longer    *)
(* first.                                                                  *)
(***************************************************************************)
AtomMatches(a, c) ==
    IF a = "d" THEN IsDigit(c)
    ELSE IF a = "dX" THEN IsDigit(c) \/ c \in {"X", "x"}
    ELSE c = a

MatchesAt(pat, t, i) ==
    /\ i + Len(pat) - 1 <= Len(t)
    /\ \A k \in 1..Len(pat) : AtomMatches(pat[k], t[i + k - 1])

\* the length of the match at i of the first alternative, from the a-th on,
\* that matches there, or 0
RECURSIVE MatchLen(_, _, _, _)
MatchLen(alts, t, i, a) ==
    IF a > Len(alts) THEN 0
    ELSE IF MatchesAt(alts[a], t, i) THEN Len(alts[a])
    ELSE MatchLen(alts, t, i, a + 1)

\* re.finditer(pattern, t): match.group(), match.start(), match.end()
RECURSIVE finditer(_, _, _)
finditer(alts, t, i) ==
    IF i > Len(t) THEN << >>
    ELSE LET n == MatchLen(alts, t, i, 1)
         IN  IF n > 0
             THEN << [text |-> SubSeq(t, i, i + n - 1), start |-> i - 1, end |-> i - 1 + n] >>
                      \o finditer(alts, t, i + n)
             ELSE finditer(alts, t, i + 1)

CpfPatterns ==
    << << <<"d", "d", "d", ".", "d", "d", "d", ".", "d", "d", "d", "-", "d", "d">> >>,
       << <<"d", "d", "d", "d", "d", "d", "d", "d", "d", "d", "d">> >> >>

RgPatterns ==
    << << <<"d", "d", ".", "d", "d", "d", ".", "d", "d", "d", "-", "dX">> >>,
       << <<"d", "d", ".", "d", "d", "d", ".", "d", "d", "d">>,
          <<"d", ".", "d", "d", "d", ".", "d", "d", "d">> >> >>

DatePatterns ==
    << << <<"d", "d", "/", "d", "d", "/", "d", "d", "d", "d">> >>,
       << <<"d", "d", "-", "d", "d", "-", "d", "d", "d", "d">> >>,
       << <<"d", "d", ".", "d", "d", ".", "d", "d", "d", "d">> >> >>

\* for pattern in patterns: for match in re.finditer(pattern, text)
RECURSIVE AllMatches(_, _, _)
AllMatches(patterns, t, p) ==
    IF p > Len(patterns) THEN << >>
    ELSE finditer(patterns[p], t, 1) \o AllMatches(patterns, t, p + 1)

validate_rg(rg) ==
    LET IsRgChar(c) == IsDigit(c) \/ c \in {"X", "x"}
        rg_clean == SelectSeq(rg, IsRgChar)
    IN  ~(Len(rg_clean) < 7 \/ Len(rg_clean) > 9)

\* the first result of each CPF, by its digits
RECURSIVE UniqueByDigits(_, _, _)
UniqueByDigits(results, i, seen) ==
    IF i > Len(results) THEN << >>
    ELSE LET cpf_clean == SelectSeq(results[i].text, IsDigit)
         IN  IF cpf_clean \in seen THEN UniqueByDigits(results, i + 1, seen)
             ELSE <<results[i]>> \o UniqueByDigits(results, i + 1, seen \cup {cpf_clean})

extract_cpfs(t) ==
    LET Valid(m) == validate_cpf(m.text)
    IN  UniqueByDigits(SelectSeq(AllMatches(CpfPatterns, t, 1), Valid), 1, {})

extract_rgs(t) ==
    LET Valid(m) == validate_rg(m.text)
    IN  SelectSeq(AllMatches(RgPatterns, t, 1), Valid)

\* datetime.now().year
current_year == 2026

IsLeap(y) == (y % 4 = 0 /\ y % 100 # 0) \/ y % 400 = 0

DaysInMonth(y, m) ==
    IF m = 2 THEN (IF IsLeap(y) THEN 29 ELSE 28)
    ELSE IF m \in {4, 6, 9, 11} THEN 30 ELSE 31

\* the number a string of digits stands for
RECURSIVE ParseInt(_)
ParseInt(ds) ==
    IF ds = << >> THEN 0 ELSE 10 * ParseInt(SubSeq(ds, 1, Len(ds) - 1)) + int(ds[Len(ds)])

\* a strptime that takes any day up to 31 in any month
strptime_any_month_length(date_str) ==
    LET d == ParseInt(SubSeq(date_str, 1, 2))
        m == ParseInt(SubSeq(date_str, 4, 5))
        y == ParseInt(SubSeq(date_str, 7, 10))
    IN  IF y >= 1 /\ m \in 1..12 /\ d >= 1 /\ d <= 31
        THEN [ok |-> TRUE, year |-> y, month |-> m, day |-> d]
        ELSE [ok |-> FALSE, year |-> 0, month |-> 0, day |-> 0]

\* datetime.strptime(date_str, '%d?%m?%Y'), for a string the pattern matched:
\* [ok |-> FALSE] is ValueError
strptime(date_str) ==
    LET d == ParseInt(SubSeq(date_str, 1, 2))
        m == ParseInt(SubSeq(date_str, 4, 5))
        y == ParseInt(SubSeq(date_str, 7, 10))
    IN  IF y >= 1 /\ m \in 1..12 /\ d >= 1 /\ d <= DaysInMonth(y, m)
        THEN [ok |-> TRUE, year |-> y, month |-> m, day |-> d]
        ELSE [ok |-> FALSE, year |-> 0, month |-> 0, day |-> 0]

extract_birth_dates(t) ==
    LET IsBirthDate(m) ==
            /\ strptime(m.text).ok
            /\ current_year - strptime(m.text).year >= 0
            /\ current_year - strptime(m.text).year <= 120
    IN  SelectSeq(AllMatches(DatePatterns, t, 1), IsBirthDate)

(***************************************************************************)
(* src/core/entity_detector.py.  What the language model labels in a text  *)
(* is not in the code: doc_ents is any sequence of spans of the text, in   *)
(* the order of the text and without overlap, as <<start, end, label>>     *)
(* (from 0, end excluded).                                                 *)
(***************************************************************************)
RECURSIVE strip(_)
strip(s) ==
    IF s # << >> /\ s[1] \in {" ", "\n", "\t"} THEN strip(Tail(s))
    ELSE IF s # << >> /\ s[Len(s)] \in {" ", "\n", "\t"} THEN strip(SubSeq(s, 1, Len(s) - 1))
    ELSE s

\* an nlp property that goes on without the language model
nlp_without_error(_nlp, model_found) == [raised |-> "none", _nlp |-> "loaded"]

\* EntityDetector.nlp: the model is loaded at the first use; RuntimeError if
\* spacy.load does not find it
nlp_property(_nlp, model_found) ==
    IF _nlp = "None"
    THEN IF model_found THEN [raised |-> "none", _nlp |-> "loaded"]
         ELSE [raised |-> "RuntimeError", _nlp |-> "None"]
    ELSE [raised |-> "none", _nlp |-> _nlp]

\* a detect_persons that does not look at seen_texts
RECURSIVE detect_persons_with_duplicates(_, _, _, _)
detect_persons_with_duplicates(t, doc_ents, i, seen_texts) ==
    IF i > Len(doc_ents) THEN << >>
    ELSE LET normalized == strip(SubSeq(t, doc_ents[i][1] + 1, doc_ents[i][2]))
         IN  IF doc_ents[i][3] = "PER" /\ normalized # << >>
             THEN << [text |-> normalized, start |-> doc_ents[i][1], end |-> doc_ents[i][2]] >>
                      \o detect_persons_with_duplicates(t, doc_ents, i + 1, seen_texts)
             ELSE detect_persons_with_duplicates(t, doc_ents, i + 1, seen_texts)

RECURSIVE detect_persons_from(_, _, _, _)
detect_persons_from(t, doc_ents, i, seen_texts) ==
    IF i > Len(doc_ents) THEN << >>
    ELSE LET normalized == strip(SubSeq(t, doc_ents[i][1] + 1, doc_ents[i][2]))
         IN  IF doc_ents[i][3] = "PER" /\ normalized # << >> /\ normalized \notin seen_texts
             THEN << [text |-> normalized, start |-> doc_ents[i][1], end |-> doc_ents[i][2]] >>
                      \o detect_persons_from(t, doc_ents, i + 1, seen_texts \cup {normalized})
             ELSE detect_persons_from(t, doc_ents, i + 1, seen_texts)

detect_persons(t, doc_ents) == detect_persons_from(t, doc_ents, 1, {})

Categories == <<"persons", "cpfs", "rgs", "dates">>

detect_all(t, doc_ents) ==
    [persons |-> detect_persons(t, doc_ents),
     cpfs |-> extract_cpfs(t),
     rgs |-> extract_rgs(t),
     dates |-> extract_birth_dates(t)]

(***************************************************************************)
(* The generators.  Each takes, as an argument, what its random source     *)
(* gave it.                                                                *)
(***************************************************************************)
\* generate_valid_rg(): eight digits and a last digit or X
generate_valid_rg(rnd, last_digit) ==
    <<str(rnd[1]), str(rnd[2]), ".", str(rnd[3]), str(rnd[4]), str(rnd[5]), ".",
      str(rnd[6]), str(rnd[7]), str(rnd[8]), "-", last_digit>>

\* (end_date - start_date).days, from 1950-01-01 to 2006-12-31
delta_days == 20818

RECURSIVE MonthAndDay(_, _, _)
MonthAndDay(y, m, n) ==
    IF n >= DaysInMonth(y, m) THEN MonthAndDay(y, m + 1, n - DaysInMonth(y, m))
    ELSE [year |-> y, month |-> m, day |-> n + 1]

\* datetime(y, 1, 1) + timedelta(days=n)
RECURSIVE PlusDays(_, _)
PlusDays(y, n) ==
    LET days_in_year == IF IsLeap(y) THEN 366 ELSE 365
    IN  IF n >= days_in_year THEN PlusDays(y + 1, n - days_in_year)
        ELSE MonthAndDay(y, 1, n)

\* the digits of n, zero-padded to w places
RECURSIVE ZeroPadded(_, _)
ZeroPadded(n, w) ==
    IF w = 0 THEN << >> ELSE Append(ZeroPadded(n \div 10, w - 1), str(n % 10))

\* a _generate_adult_date that writes every date with '/'
generate_adult_date_with_slash(original_date, random_days) ==
    LET fake_date == PlusDays(1950, random_days)
    IN  ZeroPadded(fake_date.day, 2) \o <<"/">> \o ZeroPadded(fake_date.month, 2)
            \o <<"/">> \o ZeroPadded(fake_date.year, 4)

\* Anonymizer._generate_adult_date(original_date), random_days being
\* random.randint(0, delta.days)
generate_adult_date(original_date, random_days) ==
    LET separator == IF "/" \in Range(original_date) THEN "/"
                     ELSE IF "-" \in Range(original_date) THEN "-" ELSE "."
        fake_date == PlusDays(1950, random_days)
    IN  ZeroPadded(fake_date.day, 2) \o <<separator>> \o ZeroPadded(fake_date.month, 2)
            \o <<separator>> \o ZeroPadded(fake_date.year, 4)

\* the replacement a category's generator makes for an original
Generate(category, original, draw) ==
    IF category = "persons" THEN draw                                  \* self.faker.name()
    ELSE IF category = "cpfs" THEN generate_valid_cpf(draw)
    ELSE IF category = "rgs" THEN generate_valid_rg(draw[1], draw[2])
    ELSE generate_adult_date(original, draw)

(***************************************************************************)
(* src/core/anonymizer.py.  A category of self.mapping is the sequence of  *)
(* its <<original, replacement>> items, in insertion order.                *)
(***************************************************************************)
EmptyMapping == [c \in Range(Categories) |-> << >>]

Keys(items) == {items[i][1] : i \in DOMAIN items}

\* one loop of generate_replacements, generating for every entity it meets
RECURSIVE generate_for_every_entity(_, _, _, _, _, _)
generate_for_every_entity(category, items, ents, i, stream, k) ==
    IF i > Len(ents) THEN [items |-> items, generated |-> k]
    ELSE generate_for_every_entity(category,
             DictSet(items, ents[i].text, Generate(category, ents[i].text, stream[k + 1])),
             ents, i + 1, stream, k + 1)

\* one loop of generate_replacements: the entities ents of a category, from
\* the i-th on, with k values taken from the random stream so far
RECURSIVE generate_category(_, _, _, _, _, _)
generate_category(category, items, ents, i, stream, k) ==
    IF i > Len(ents) THEN [items |-> items, generated |-> k]
    ELSE IF ents[i].text \notin Keys(items)
    THEN generate_category(category,
             DictSet(items, ents[i].text, Generate(category, ents[i].text, stream[k + 1])),
             ents, i + 1, stream, k + 1)
    ELSE generate_category(category, items, ents, i + 1, stream, k)

generate_replacements(self_mapping, ents, streams) ==
    LET loop == [c \in Range(Categories) |->
                    generate_category(c, self_mapping[c], ents[c], 1, streams[c], 0)]
    IN  [mapping |-> [c \in Range(Categories) |-> loop[c].items],
         generated |-> loop["persons"].generated + loop["cpfs"].generated
                       + loop["rgs"].generated + loop["dates"].generated]

\* A text under substitution is a sequence of cells <<character, position in
\* the input text (0 if inserted), substitution that inserted it (0 if input)>>.
InputCells(t) == [i \in 1..Len(t) |-> <<t[i], i, 0>>]

Plain(cells) == [i \in 1..Len(cells) |-> cells[i][1]]

\* re.IGNORECASE on the letters of the model
Lower(c) ==
    IF c = "A" THEN "a" ELSE IF c = "B" THEN "b"
    ELSE IF c = "X" THEN "x" ELSE IF c = "Y" THEN "y" ELSE c

LowerAll(s) == [i \in 1..Len(s) |-> Lower(s[i])]

OccursAt(cells, i, old, ignorecase) ==
    /\ i + Len(old) - 1 <= Len(cells)
    /\ \A k \in 1..Len(old) :
          IF ignorecase THEN Lower(cells[i + k - 1][1]) = Lower(old[k])
          ELSE cells[i + k - 1][1] = old[k]

\* a substitution of the first match only
RECURSIVE Substitute_first_only(_, _, _, _, _, _)
Substitute_first_only(cells, i, old, new, step, ignorecase) ==
    IF i > Len(cells) THEN << >>
    ELSE IF OccursAt(cells, i, old, ignorecase)
    THEN [k \in 1..Len(new) |-> <<new[k], 0, step>>]
             \o SubSeq(cells, i + Len(old), Len(cells))
    ELSE <<cells[i]>> \o Substitute_first_only(cells, i + 1, old, new, step, ignorecase)

\* str.replace(old, new), and re.compile(re.escape(old), re.IGNORECASE).sub(new, .)
\* for a new without backslashes: every match from the left, without overlap
RECURSIVE Substitute(_, _, _, _, _, _)
Substitute(cells, i, old, new, step, ignorecase) ==
    IF i > Len(cells) THEN << >>
    ELSE IF OccursAt(cells, i, old, ignorecase)
    THEN [k \in 1..Len(new) |-> <<new[k], 0, step>>]
             \o Substitute(cells, i + Len(old), old, new, step, ignorecase)
    ELSE <<cells[i]>> \o Substitute(cells, i + 1, old, new, step, ignorecase)

\* sorted(items, key=lambda x: len(x[0]), reverse=True): stable
RECURSIVE sorted_by_len_reverse(_)
sorted_by_len_reverse(items) ==
    IF items = << >> THEN << >>
    ELSE LET longest == CHOOSE i \in DOMAIN items :
                           /\ \A j \in DOMAIN items : Len(items[j][1]) <= Len(items[i][1])
                           /\ \A j \in 1..(i - 1) : Len(items[j][1]) < Len(items[i][1])
         IN  <<items[longest]>>
                 \o sorted_by_len_reverse(SubSeq(items, 1, longest - 1)
                                          \o SubSeq(items, longest + 1, Len(items)))

WithCategory(category, items) ==
    [i \in 1..Len(items) |->
        [category |-> category, original |-> items[i][1], replacement |-> items[i][2]]]

\* the substitutions of anonymize, in its order
Substitutions(self_mapping) ==
    WithCategory("persons", sorted_by_len_reverse(self_mapping["persons"]))
        \o WithCategory("cpfs", self_mapping["cpfs"])
        \o WithCategory("rgs", self_mapping["rgs"])
        \o WithCategory("dates", self_mapping["dates"])

\* the substitutions subs from the k-th on, applied to cells: each with the
\* text before it and after it
RECURSIVE Apply(_, _, _)
Apply(cells, subs, k) ==
    IF k > Len(subs) THEN << >>
    ELSE LET after == Substitute(cells, 1, subs[k].original, subs[k].replacement, k,
                                 subs[k].category = "persons")
         IN  << [category |-> subs[k].category, original |-> subs[k].original,
                 replacement |-> subs[k].replacement, before |-> cells, after |-> after] >>
                 \o Apply(after, subs, k + 1)

\* Anonymizer.anonymize(text), after detect_all and generate_replacements
anonymize(t, self_mapping) ==
    LET applied == Apply(InputCells(t), Substitutions(self_mapping), 1)
    IN  [steps |-> applied,
         anonymized_text |-> IF applied = << >> THEN t
                             ELSE Plain(applied[Len(applied)].after)]

\* the inner loops of reverse: items from the k-th on
RECURSIVE reverse_items(_, _, _, _)
reverse_items(cells, category, items, k) ==
    IF k > Len(items) THEN cells
    ELSE reverse_items(Substitute(cells, 1, items[k][2], items[k][1], k,
                                  category = "persons"),
                       category, items, k + 1)

\* Anonymizer.reverse(anonymized_text, mapping)
reverse(anonymized_text, a_mapping) ==
    Plain(reverse_items(
              reverse_items(
                  reverse_items(
                      reverse_items(InputCells(anonymized_text), "persons",
                                    a_mapping["persons"], 1),
                      "cpfs", a_mapping["cpfs"], 1),
                  "rgs", a_mapping["rgs"], 1),
              "dates", a_mapping["dates"], 1))

(***************************************************************************)
(* The inputs of the Anonymizer.  A text is a sequence of tokens: names    *)
(* ("a", "A", "ab" and "aba"), a CPF with its punctuation and as eleven    *)
(* digits, an RG with each of the last characters 9, X and x, a date.      *)
(***************************************************************************)
NameTokens == {<<"a">>, <<"A">>, <<"a", "b">>, <<"a", "b", "a">>}

CpfToken == <<"5", "2", "9", ".", "9", "8", "2", ".", "2", "4", "7", "-", "2", "5">>

RgToken == <<"1", "2", ".", "3", "4", "5", ".", "6", "7", "8", "-", "9">>

DateToken == <<"0", "1", "/", "0", "2", "/", "1", "9", "9", "0">>

RgTokenX == <<"1", "2", ".", "3", "4", "5", ".", "6", "7", "8", "-", "X">>

RgTokenLowerX == <<"1", "2", ".", "3", "4", "5", ".", "6", "7", "8", "-", "x">>

CpfTokenDigits == SelectSeq(CpfToken, IsDigit)

Vocabulary ==
    NameTokens \cup {CpfToken, CpfTokenDigits, RgToken, RgTokenX, RgTokenLowerX, DateToken}

RECURSIVE Flatten(_)
Flatten(tokens) ==
    IF tokens = << >> THEN << >> ELSE Head(tokens) \o Flatten(Tail(tokens))

\* the sequences of at most k spans <<i, j>> of name tokens i..j, each after
\* the one before, from token `from` on
RECURSIVE SpanSeqs(_, _, _)
SpanSeqs(tokens, k, from) ==
    {<< >>} \cup
    (IF k = 0 THEN {}
     ELSE UNION { { <<<<i, j>>>> \o rest : rest \in SpanSeqs(tokens, k - 1, j + 1) } :
                  <<i, j>> \in { ij \in (from..Len(tokens)) \X (from..Len(tokens)) :
                                    /\ ij[1] <= ij[2]
                                    /\ \A n \in ij[1]..ij[2] : tokens[n] \in NameTokens } })

\* a span of tokens as doc.ents gives it: start_char, end_char, label_
CharSpan(tokens, span) ==
    <<Len(Flatten(SubSeq(tokens, 1, span[1] - 1))), Len(Flatten(SubSeq(tokens, 1, span[2]))),
      "PER">>

\* what the language model may label PER in the text
DocEnts(tokens) ==
    { [n \in 1..Len(spans) |-> CharSpan(tokens, spans[n])] :
        spans \in SpanSeqs(tokens, MaxEnts, 1) }

\* what self.faker.name() may return
FakeNames == {<<"X">>, <<"Y">>, <<"X", "a">>}

\* what generate_valid_cpf, generate_valid_rg and _generate_adult_date may draw
Draws(category) ==
    IF category = "persons" THEN FakeNames
    ELSE IF category = "cpfs"
    THEN {<<1, 1, 1, 4, 4, 4, 7, 7, 7>>, <<1, 1, 1, 1, 1, 1, 1, 1, 1>>}
    ELSE IF category = "rgs"
    THEN {<<<<1, 2, 3, 4, 5, 6, 7, 8>>, "9">>, <<<<9, 8, 7, 6, 5, 4, 3, 2>>, "X">>}
    ELSE {0, delta_days}

\* the random values a loop of generate_replacements is given: one for each
\* entity, of which it takes one for each original that is not yet a key
StreamsOf(category, items, ents) ==
    LET texts == {ents[i].text : i \in DOMAIN ents}
        n == Cardinality(texts \ Keys(items))
        unused == CHOOSE d \in Draws(category) : TRUE
    IN  { [i \in 1..Len(ents) |-> IF i <= n THEN f[i] ELSE unused] :
            f \in [1..n -> Draws(category)] }

Streams(self_mapping, ents) ==
    { [persons |-> p, cpfs |-> c, rgs |-> r, dates |-> d] :
        p \in StreamsOf("persons", self_mapping["persons"], ents["persons"]),
        c \in StreamsOf("cpfs", self_mapping["cpfs"], ents["cpfs"]),
        r \in StreamsOf("rgs", self_mapping["rgs"], ents["rgs"]),
        d \in StreamsOf("dates", self_mapping["dates"], ents["dates"]) }

NoEntities == [persons |-> << >>, cpfs |-> << >>, rgs |-> << >>, dates |-> << >>]

(***************************************************************************)
(* One Anonymizer.                                                         *)
(***************************************************************************)
\* Anonymizer.__init__
AnonStart ==
    /\ selfMapping = EmptyMapping
    /\ op = "init"
    /\ calls = 0
    /\ used = 0
    /\ inText = << >>
    /\ entities = NoEntities
    /\ generated = 0
    /\ steps = << >>
    /\ anonymized = << >>
    /\ restored = << >>
    /\ nlp = "None"
    /\ modelFound \in BOOLEAN
    /\ raised = "none"

\* Anonymizer.anonymize(text): detect_all reads self.nlp first, and what it
\* raises ends the call
Anonymize ==
    /\ calls < MaxCalls
    /\ \E tokens \in SeqsOver(Vocabulary, 0, MaxTokens - used) :
          LET t == Flatten(tokens)
              loaded == nlp_property(nlp, modelFound)
          IN  /\ inText' = t
              /\ used' = used + Len(tokens)
              /\ nlp' = loaded._nlp
              /\ raised' = loaded.raised
              /\ IF loaded.raised # "none"
                 THEN /\ entities' = NoEntities
                      /\ generated' = 0
                      /\ steps' = << >>
                      /\ anonymized' = << >>
                      /\ UNCHANGED selfMapping
                 ELSE \E doc_ents \in DocEnts(tokens) :
                         LET ents == detect_all(t, doc_ents)
                         IN  \E streams \in Streams(selfMapping, ents) :
                                LET g == generate_replacements(selfMapping, ents, streams)
                                    a == anonymize(t, g.mapping)
                                IN  /\ entities' = ents
                                    /\ selfMapping' = g.mapping
                                    /\ generated' = g.generated
                                    /\ steps' = a.steps
                                    /\ anonymized' = a.anonymized_text
    /\ op' = "anonymize"
    /\ calls' = calls + 1
    /\ restored' = << >>
    /\ UNCHANGED modelFound
    /\ UNCHANGED notAnonVars

\* Anonymizer.generate_replacements(entities), the entities being what a
\* detector of the caller found in a text
GenerateReplacements ==
    /\ calls < MaxCalls
    /\ \E tokens \in SeqsOver(Vocabulary, 0, MaxTokens - used) :
          \E doc_ents \in DocEnts(tokens) :
             LET t == Flatten(tokens)
                 ents == detect_all(t, doc_ents)
             IN  \E streams \in Streams(selfMapping, ents) :
                    LET g == generate_replacements(selfMapping, ents, streams)
                    IN  /\ inText' = t
                        /\ entities' = ents
                        /\ selfMapping' = g.mapping
                        /\ generated' = g.generated
                        /\ used' = used + Len(tokens)
    /\ op' = "generate"
    /\ calls' = calls + 1
    /\ steps' = << >>
    /\ anonymized' = << >>
    /\ restored' = << >>
    /\ raised' = "none"
    /\ UNCHANGED <<nlp, modelFound>>
    /\ UNCHANGED notAnonVars

\* Anonymizer.reverse(anonymized_text, mapping), on what anonymize returned
Reverse ==
    /\ op = "anonymize"
    /\ raised = "none"
    /\ restored' = reverse(anonymized, selfMapping)
    /\ op' = "reverse"
    /\ UNCHANGED <<selfMapping, calls, used, inText, entities, generated, steps, anonymized,
                   nlp, modelFound, raised>>
    /\ UNCHANGED notAnonVars

\* Anonymizer(): another instance, for another run
NewAnonymizer ==
    /\ op # "init"
    /\ selfMapping' = EmptyMapping
    /\ op' = "init"
    /\ calls' = 0
    /\ used' = 0
    /\ inText' = << >>
    /\ entities' = NoEntities
    /\ generated' = 0
    /\ steps' = << >>
    /\ anonymized' = << >>
    /\ restored' = << >>
    /\ nlp' = "None"
    /\ raised' = "none"
    /\ UNCHANGED modelFound
    /\ UNCHANGED notAnonVars

Next ==
    \/ Anonymize
    \/ GenerateReplacements
    \/ Reverse
    \/ NewAnonymizer

(***************************************************************************)
(* Claims about the Anonymizer (Spec).                                     *)
(***************************************************************************)
\* the originals of self.mapping, each with its category
Originals ==
    UNION { {<<c, k>> : k \in Keys(selfMapping[c])} : c \in Range(Categories) }

\* no two originals are the same string, or the same but for the case of
\* their letters
NoCollidingOriginals ==
    \A x, y \in Originals : x # y => LowerAll(x[2]) # LowerAll(y[2])

\* C1: for every text, with m the mapping generate_replacements makes for
\* detect_all(text) and anonymized the text with m applied,
\* reverse(anonymized, m) is the text, provided no two detected originals
\* collide.
C1_RoundTrip ==
    (op = "reverse" /\ calls = 1 /\ NoCollidingOriginals) => restored = inText

\* C2: in any sequence of generate_replacements and anonymize calls on one
\* Anonymizer, an original that is a key of a category keeps its replacement
\* and is never removed, and a call makes one generator call for each key it
\* adds and none for an original that is mapped already.
C2_KeysStable ==
    [][ op' \in {"anonymize", "generate"} =>
          /\ \A c \in Range(Categories) :
                \A i \in DOMAIN selfMapping[c] :
                   /\ i \in DOMAIN selfMapping'[c]
                   /\ selfMapping'[c][i] = selfMapping[c][i]
          /\ generated' = (Len(selfMapping'["persons"]) - Len(selfMapping["persons"]))
                          + (Len(selfMapping'["cpfs"]) - Len(selfMapping["cpfs"]))
                          + (Len(selfMapping'["rgs"]) - Len(selfMapping["rgs"]))
                          + (Len(selfMapping'["dates"]) - Len(selfMapping["dates"])) ]_vars

\* a second anonymize met only persons that were mapped already, and
\* generated nothing
C2_Witness ==
    /\ op = "anonymize"
    /\ calls = 2
    /\ entities["persons"] # << >>
    /\ generated = 0

\* the texts detect_all found in the last text, in a category
DetectedTexts(c) == {entities[c][i].text : i \in DOMAIN entities[c]}

\* C3: the mapping anonymize(text) returns holds only originals detected in
\* that text, never entries of an earlier anonymize call on the same instance.
C3_MappingOfThisTextOnly ==
    (op = "anonymize" /\ raised = "none") =>
        \A c \in Range(Categories) : Keys(selfMapping[c]) \subseteq DetectedTexts(c)

IsSubstring(b, a) ==
    \E i \in 1..(Len(a) - Len(b) + 1) : SubSeq(a, i, i + Len(b) - 1) = b

\* characters of the input text, still next to each other as they were there
InputRun(cells, i, s) ==
    /\ i + Len(s) - 1 <= Len(cells)
    /\ \A k \in 1..Len(s) :
          /\ Lower(cells[i + k - 1][1]) = Lower(s[k])
          /\ cells[i + k - 1][3] = 0
          /\ cells[i + k - 1][2] = cells[i][2] + k - 1

\* an occurrence of the name a, in any case, made of characters of the input
IntactOccurrence(cells, a) == \E i \in 1..Len(cells) : InputRun(cells, i, a)

\* an occurrence of the name a of which the part b, and only it, was replaced
\* by substitution n: the rest of a around what n inserted
PartlyReplaced(cells, a, b, n) ==
    \E o \in 1..(Len(a) - Len(b) + 1) : \E i \in 1..Len(cells) :
       LET new == steps[n].replacement
           j == i + o - 1
       IN  /\ SubSeq(a, o, o + Len(b) - 1) = b
           /\ InputRun(cells, i, SubSeq(a, 1, o - 1))
           /\ j + Len(new) - 1 <= Len(cells)
           /\ \A k \in 1..Len(new) : cells[j + k - 1] = <<new[k], 0, n>>
           /\ InputRun(cells, j + Len(new), SubSeq(a, o + Len(b), Len(a)))

PersonSteps == {k \in DOMAIN steps : steps[k].category = "persons"}

\* the names steps[a].original and steps[b].original are a name and a shorter
\* name that is a part of it
NameAndPart(a, b) ==
    /\ Len(steps[b].original) < Len(steps[a].original)
    /\ IsSubstring(steps[b].original, steps[a].original)

\* the occurrence of the name a at cell i before substitution n overlaps an
\* occurrence of a that starts before it, which the scan from the left meets
\* first
OverlapsEarlier(n, i, a) ==
    \E j \in Max(1, i - Len(a) + 1)..(i - 1) : OccursAt(steps[n].before, j, a, TRUE)

\* substitution n left no character of the occurrence at cell i of the text
\* it was applied to
ReplacedAsAWhole(n, i, a) ==
    LET first == steps[n].before[i][2]
    IN  \A k \in 1..Len(steps[n].after) :
           LET cell == steps[n].after[k]
           IN  ~(cell[3] = 0 /\ cell[2] \in first..(first + Len(a) - 1))

\* C10: when the persons mapping holds a name A and a shorter name
\* B that is a substring of A, anonymize substitutes A before B, so every
\* occurrence of A in the text is replaced as a whole by A's replacement, and
\* no occurrence of A stands partly replaced (B's replacement and the rest of
\* A).
C10_EveryOccurrenceAsAWhole ==
    op = "anonymize" =>
        \A a, b \in PersonSteps :
           NameAndPart(a, b) =>
               /\ a < b
               /\ \A i \in 1..Len(steps[a].before) :
                     InputRun(steps[a].before, i, steps[a].original)
                        => ReplacedAsAWhole(a, i, steps[a].original)
               /\ ~PartlyReplaced(steps[b].after, steps[a].original, steps[b].original, b)

\* What anonymize does for a name A and a shorter name B that is a substring
\* of A: it substitutes A before B, every occurrence of A that overlaps no
\* earlier occurrence of A is replaced as a whole by A's replacement, and when
\* B is substituted no complete occurrence of A is left in the text.
LongerNameFirst ==
    op = "anonymize" =>
        \A a, b \in PersonSteps :
           NameAndPart(a, b) =>
               /\ a < b
               /\ \A i \in 1..Len(steps[a].before) :
                     (/\ InputRun(steps[a].before, i, steps[a].original)
                      /\ ~OverlapsEarlier(a, i, steps[a].original))
                        => ReplacedAsAWhole(a, i, steps[a].original)
               /\ ~IntactOccurrence(steps[b].before, steps[a].original)

\* the place of a category in the order of anonymize
CategoryRank(c) == CHOOSE i \in DOMAIN Categories : Categories[i] = c

\* the characters substitution k inserted
Inserted(k) == SelectSeq(steps[k].after, LAMBDA cell : cell[3] = k)

\* an occurrence of its original that substitution k left: one at cell i of
\* the text after it, made of characters that were in the text before it
LeftOccurrence(k, i) ==
    /\ OccursAt(steps[k].after, i, steps[k].original, steps[k].category = "persons")
    /\ \A n \in 1..Len(steps[k].original) : steps[k].after[i + n - 1][3] # k

\* at cell i of the text before substitution k stands its original in another
\* case of the letters, apart from every occurrence of the original itself
CaseVariantAt(k, i) ==
    /\ OccursAt(steps[k].before, i, steps[k].original, TRUE)
    /\ \A j \in 1..Len(steps[k].before) :
          (j > i - Len(steps[k].original) /\ j < i + Len(steps[k].original))
             => ~OccursAt(steps[k].before, j, steps[k].original, FALSE)

\* the characters at cells i.. of the text before substitution k stand in the
\* text after it as they were
Untouched(k, i) ==
    \E j \in 1..Len(steps[k].after) :
       /\ j + Len(steps[k].original) - 1 <= Len(steps[k].after)
       /\ \A n \in 1..Len(steps[k].original) :
             steps[k].after[j + n - 1] = steps[k].before[i + n - 1]

C15_EmptyTextIsUnsupportedInput ==
    (op = "anonymize" /\ inText = << >> /\ nlp = "loaded") =>
        raised = "UnsupportedInputError"

\* C22: the mapping generate_replacements builds has, within a category, no
\* two distinct originals with the same replacement.
C22_NoTwoOriginalsShareAReplacement ==
    (op \in {"anonymize", "generate"} /\ raised = "none") =>
        \A c \in Range(Categories) :
           \A i, j \in DOMAIN selfMapping[c] :
              i # j => selfMapping[c][i][2] # selfMapping[c][j][2]

\* the characters of cells that substitution j inserted
InsertedBy(cells, j) == SelectSeq(cells, LAMBDA cell : cell[3] = j)

\* C23: during anonymize no substitution alters what an earlier substitution
\* inserted: the characters an earlier one inserted stand in the text after
\* every later one as they stood before it, so every replaced occurrence is
\* in the output as its replacement.
C23_InsertedTextIsNeverAltered ==
    (op = "anonymize" /\ raised = "none") =>
        \A k \in DOMAIN steps :
           \A j \in 1..(k - 1) :
              InsertedBy(steps[k].after, j) = InsertedBy(steps[k].before, j)

\* C24: after anonymize(text) no key of the mapping it returned occurs in the
\* anonymized text, a person's name in any case of its letters, a cpf, rg or
\* date as it is written.
C24_NoOriginalInAnonymizedText ==
    (op = "anonymize" /\ raised = "none") =>
        \A c \in Range(Categories) :
           \A key \in Keys(selfMapping[c]) :
              \A i \in 1..Len(anonymized) :
                 ~OccursAt(InputCells(anonymized), i, key, c = "persons")

\* the matches of the CPF patterns in a text that pass validate_cpf
ValidCpfsIn(t) ==
    {m.text : m \in {x \in Range(AllMatches(CpfPatterns, t, 1)) : validate_cpf(x.text)}}

\* C25: every part of the text that matches a CPF pattern, with punctuation or
\* as eleven digits, and passes validate_cpf is a key of the cpfs mapping
\* after anonymize, and so none of them is left in the anonymized text.
C25_EveryValidCpfIsAKey ==
    (op = "anonymize" /\ raised = "none") =>
        /\ ValidCpfsIn(inText) \subseteq Keys(selfMapping["cpfs"])
        /\ ValidCpfsIn(anonymized) \cap ValidCpfsIn(inText) = {}

\* C27: no rg entity detect_all returns overlaps the span of a cpf entity it
\* returns for the same text.
C27_NoRgInsideACpf ==
    (op = "anonymize" /\ raised = "none") =>
        \A r \in Range(entities["rgs"]) :
           \A c \in Range(entities["cpfs"]) :
              r.end <= c.start \/ c.end <= r.start

(***************************************************************************)
(* One call of a detector function, on a text of its own.                  *)
(***************************************************************************)
\* date strings: a day, a month and a year, with the separators between them
DateStrings ==
    { d \o <<seps[1]>> \o m \o <<seps[2]>> \o y :
        d \in {<<"0", "0">>, <<"2", "9">>, <<"3", "1">>},
        m \in {<<"0", "2">>, <<"0", "4">>, <<"1", "2">>, <<"1", "3">>},
        y \in {<<"1", "9", "0", "5">>, <<"1", "9", "0", "6">>, <<"2", "0", "2", "4">>,
               <<"2", "0", "2", "6">>, <<"2", "0", "2", "7">>},
        seps \in {<<"/", "/">>, <<"-", "-">>, <<".", ".">>, <<"/", "-">>} }

\* what random.randint(0, delta.days) may return: the ends, a last day of a
\* month, a first, a 29th of February
RandomDays == {0, 30, 31, 789, delta_days - 1, delta_days}

\* strings the CPF patterns match: a valid CPF written with and without
\* punctuation, one with a wrong check digit, another valid CPF
CpfStrings ==
    { CpfToken,
      SelectSeq(CpfToken, IsDigit),
      <<"5", "2", "9", ".", "9", "8", "2", ".", "2", "4", "7", "-", "2", "6">>,
      <<"1", "1", "1", ".", "4", "4", "4", ".", "7", "7", "7", "-", "3", "5">> }

\* the strings, each followed by a space
RECURSIVE Spaced(_)
Spaced(strings) ==
    IF strings = << >> THEN << >> ELSE Head(strings) \o <<" ">> \o Spaced(Tail(strings))

\* a text with a name twice, and spaces
PersonsText == <<"a", " ", "a", " ", "b">>

\* what doc.ents may be for a text t: at most k spans of it, one after the
\* other, from character `from` on, each with a label
RECURSIVE LabelledSpans(_, _, _)
LabelledSpans(t, k, from) ==
    {<< >>} \cup
    (IF k = 0 THEN {}
     ELSE UNION { { <<<<i, j, label>>>> \o rest : rest \in LabelledSpans(t, k - 1, j) } :
                  <<i, j, label>> \in { x \in (from..Len(t)) \X (from..Len(t)) \X {"PER", "LOC"} :
                                          x[1] < x[2] } })

DetStart ==
    /\ detOp = "init"
    /\ detText = << >>
    /\ detDocEnts = << >>
    /\ detResult = << >>
    /\ detOriginal = << >>
    /\ detFake = << >>

\* extract_birth_dates(text)
ExtractBirthDates ==
    /\ detOp = "init"
    /\ \E t \in DateStrings :
          /\ detText' = t
          /\ detResult' = extract_birth_dates(t)
    /\ detOp' = "extract_birth_dates"
    /\ UNCHANGED <<detDocEnts, detOriginal, detFake>>
    /\ UNCHANGED notDetVars

\* Anonymizer._generate_adult_date(original), for a date detected in the text
GenerateAdultDate ==
    /\ detOp = "extract_birth_dates"
    /\ \E i \in DOMAIN detResult : \E random_days \in RandomDays :
          /\ detOriginal' = detResult[i].text
          /\ detFake' = generate_adult_date(detResult[i].text, random_days)
    /\ detOp' = "generate_adult_date"
    /\ UNCHANGED <<detText, detDocEnts, detResult>>
    /\ UNCHANGED notDetVars

\* extract_cpfs(text)
ExtractCpfs ==
    /\ detOp = "init"
    /\ \E strings \in SeqsOver(CpfStrings, 0, MaxCpfs) :
          /\ detText' = Spaced(strings)
          /\ detResult' = extract_cpfs(Spaced(strings))
    /\ detOp' = "extract_cpfs"
    /\ UNCHANGED <<detDocEnts, detOriginal, detFake>>
    /\ UNCHANGED notDetVars

\* EntityDetector.detect_persons(text), the language model being loaded
DetectPersons ==
    /\ detOp = "init"
    /\ \E doc_ents \in LabelledSpans(PersonsText, MaxEnts, 0) :
          /\ detDocEnts' = doc_ents
          /\ detResult' = detect_persons(PersonsText, doc_ents)
    /\ detText' = PersonsText
    /\ detOp' = "detect_persons"
    /\ UNCHANGED <<detOriginal, detFake>>
    /\ UNCHANGED notDetVars

DetNext ==
    \/ ExtractBirthDates
    \/ GenerateAdultDate
    \/ ExtractCpfs
    \/ DetectPersons

(***************************************************************************)
(* Claims about the detector functions (SpecDetector).                     *)
(***************************************************************************)
\* day d of month m of year y is a day of the calendar
CalendarDate(y, m, d) ==
    /\ y \in 1..9999
    /\ m \in 1..12
    /\ d >= 1
    /\ d <= (IF m \in {1, 3, 5, 7, 8, 10, 12} THEN 31
             ELSE IF m # 2 THEN 30
             ELSE IF y % 400 = 0 \/ (y % 4 = 0 /\ y % 100 # 0) THEN 29 ELSE 28)

\* the characters of s at the places in P are digits
DigitsAt(s, P) == \A i \in P : s[i] \in DigitChars

\* s is DD<sep>MM<sep>YYYY
FormattedDate(s, sep) ==
    /\ Len(s) = 10
    /\ DigitsAt(s, {1, 2, 4, 5, 7, 8, 9, 10})
    /\ s[3] = sep
    /\ s[6] = sep

DayOf(s) == ParseInt(SubSeq(s, 1, 2))

MonthOf(s) == ParseInt(SubSeq(s, 4, 5))

YearOf(s) == ParseInt(SubSeq(s, 7, 10))

\* C12: for every detected date original, the replacement
\* _generate_adult_date makes is a date from 1950-01-01 to 2006-12-31,
\* formatted DD<sep>MM<sep>YYYY with the separator of the original ('/', '-'
\* or '.').
C12_AdultDateInRangeSameSeparator ==
    detOp = "generate_adult_date" =>
        /\ detOriginal[3] \in {"/", "-", "."}
        /\ FormattedDate(detFake, detOriginal[3])
        /\ CalendarDate(YearOf(detFake), MonthOf(detFake), DayOf(detFake))
        /\ YearOf(detFake) \in 1950..2006

\* a date was generated for a detected date written with '-' or '.'
C12_Witness ==
    /\ detOp = "generate_adult_date"
    /\ detOriginal[3] \in {"-", "."}
    /\ detFake # << >>

\* C19: extract_birth_dates reports a pattern match if and only if it is a
\* date of the calendar, read with the separator of its pattern, and the
\* current year minus its year is from 0 to 120; a match that is no date of
\* the calendar is skipped, and nothing else is reported.
C19_ReportedIffCalendarDateOfAge ==
    detOp = "extract_birth_dates" =>
        LET matches == AllMatches(DatePatterns, detText, 1)
        IN  /\ \A i \in DOMAIN matches :
                  (matches[i] \in Range(detResult)) <=>
                      /\ CalendarDate(YearOf(matches[i].text), MonthOf(matches[i].text),
                                      DayOf(matches[i].text))
                      /\ current_year - YearOf(matches[i].text) \in 0..120
            /\ Range(detResult) \subseteq Range(matches)

\* extract_birth_dates met a match of a pattern that is no date of the
\* calendar, of a year within the ages, and returned without it
C19_Witness ==
    /\ detOp = "extract_birth_dates"
    /\ AllMatches(DatePatterns, detText, 1) # << >>
    /\ current_year - YearOf(detText) \in 0..120
    /\ ~CalendarDate(YearOf(detText), MonthOf(detText), DayOf(detText))
    /\ detResult = << >>

\* the digits of a string
DigitsOnly(x) == SelectSeq(x, LAMBDA c : c \in DigitChars)

\* the matches of the CPF patterns in the text that pass validate_cpf
ValidCpfMatches ==
    LET matches == AllMatches(CpfPatterns, detText, 1)
    IN  {matches[i] : i \in {j \in DOMAIN matches : validate_cpf(matches[j].text)}}

\* C18: extract_cpfs returns only matches that pass validate_cpf (a match
\* with a wrong check digit is dropped), one entry for each digits-only value
\* that has a valid match, and the entry of a value is its first occurrence
\* in the text, with the text of that occurrence.
C18_ValidUniqueFirstOccurrence ==
    detOp = "extract_cpfs" =>
        /\ Range(detResult) \subseteq ValidCpfMatches
        /\ \A i, j \in DOMAIN detResult :
              DigitsOnly(detResult[i].text) = DigitsOnly(detResult[j].text) => i = j
        /\ \A m \in ValidCpfMatches :
              \E i \in DOMAIN detResult :
                 /\ DigitsOnly(detResult[i].text) = DigitsOnly(m.text)
                 /\ detResult[i].start <= m.start

\* the text of entity i of doc.ents, without the white space around it
Trimmed(i) ==
    LET whole == SubSeq(detText, detDocEnts[i][1] + 1, detDocEnts[i][2])
        inked == {k \in DOMAIN whole : whole[k] \notin {" ", "\n", "\t"}}
    IN  IF inked = {} THEN << >>
        ELSE SubSeq(whole, CHOOSE k \in inked : \A n \in inked : k <= n,
                           CHOOSE k \in inked : \A n \in inked : k >= n)

\* the entities of doc.ents that are persons, not empty, and the first of
\* their trimmed text among the persons
FirstPersons ==
    { i \in DOMAIN detDocEnts :
        /\ detDocEnts[i][3] = "PER"
        /\ Trimmed(i) # << >>
        /\ \A j \in 1..(i - 1) : detDocEnts[j][3] = "PER" => Trimmed(j) # Trimmed(i) }

\* C20: detect_persons returns, of the entities the language model labels
\* PER, one entity for each trimmed text, the first in the order of doc.ents,
\* in that order, and none for an empty text.
C20_FirstPersonOfEachTrimmedText ==
    detOp = "detect_persons" =>
        /\ Len(detResult) = Cardinality(FirstPersons)
        /\ \A n \in DOMAIN detResult :
              \E i \in FirstPersons :
                 /\ Cardinality({j \in FirstPersons : j <= i}) = n
                 /\ detResult[n] = [text |-> Trimmed(i), start |-> detDocEnts[i][1],
                                    end |-> detDocEnts[i][2]]

\* detect_persons met the same trimmed name twice among the persons
C20_Witness ==
    /\ detOp = "detect_persons"
    /\ \E i, j \in DOMAIN detDocEnts :
          /\ i < j
          /\ detDocEnts[i][3] = "PER"
          /\ detDocEnts[j][3] = "PER"
          /\ Trimmed(i) = Trimmed(j)
          /\ Trimmed(i) # << >>
          /\ detDocEnts[i][2] - detDocEnts[i][1] # detDocEnts[j][2] - detDocEnts[j][1]

(***************************************************************************)
(* The generators, each called on its own: self.faker.name(),              *)
(* generate_valid_cpf(), generate_valid_rg() and _generate_adult_date().   *)
(***************************************************************************)
\* what n calls of random.randint(0, 9) may give: digits that follow one
\* another, from 1, 2 or 3 on, or the digit 1 n times
DigitRuns(n) ==
    {[i \in 1..n |-> (a + i) % 10] : a \in 0..2} \cup {[i \in 1..n |-> 1]}

\* the dates handed to _generate_adult_date: one with each separator
SeparatedDates ==
    {[i \in 1..Len(DateToken) |-> IF i \in {3, 6} THEN sep ELSE DateToken[i]] :
        sep \in {"/", "-", "."}}

GenStart ==
    /\ gName = << >>
    /\ gCpf = << >>
    /\ gRg = << >>
    /\ gDate = << >>

\* the names of Faker('pt_BR'): a first name, a space and a last name
FullNames == {first \o <<" ">> \o last : first, last \in FakeNames}

\* self.faker.name()
GenName ==
    /\ \E name \in FullNames : gName' = name
    /\ UNCHANGED <<gCpf, gRg, gDate>>
    /\ UNCHANGED notGenVars

\* generate_valid_cpf()
GenCpf ==
    /\ \E rnd \in DigitRuns(9) : gCpf' = generate_valid_cpf(rnd)
    /\ UNCHANGED <<gName, gRg, gDate>>
    /\ UNCHANGED notGenVars

\* generate_valid_rg()
GenRg ==
    /\ \E rnd \in DigitRuns(8), last_digit \in {"0", "X"} :
          gRg' = generate_valid_rg(rnd, last_digit)
    /\ UNCHANGED <<gName, gCpf, gDate>>
    /\ UNCHANGED notGenVars

\* self._generate_adult_date(original_date)
GenDate ==
    /\ \E original_date \in SeparatedDates, random_days \in {0, delta_days} :
          gDate' = generate_adult_date(original_date, random_days)
    /\ UNCHANGED <<gName, gCpf, gRg>>
    /\ UNCHANGED notGenVars

GenNext ==
    \/ GenName
    \/ GenCpf
    \/ GenRg
    \/ GenDate

\* C21: no value the generator of one category can produce equals a value
\* the generator of another category can produce, or occurs in it as a
\* substring (name, cpf, rg, date).
C21_GeneratedFormatsAreDisjoint ==
    LET values == <<gName, gCpf, gRg, gDate>>
    IN  \A x, y \in DOMAIN values :
           (x # y /\ values[x] # << >> /\ values[y] # << >>)
              => ~IsSubstring(values[x], values[y])

(***************************************************************************)
(* The front ends, src/cli.py and src/app.py.  Each run of one makes its   *)
(* own Anonymizer; the two random generators the replacements come from    *)
(* (Faker's, and the module random of validators.py and of                 *)
(* _generate_adult_date) are functions of the state they start in and of   *)
(* the number of values taken from them so far.                            *)
(***************************************************************************)
\* the value a generator started in state s gives at its k-th call
Raw(s, k) == (s + 1) * 7919 + k * 104729

\* random.randint(lo, hi) as the k-th call
RandInt(s, k, lo, hi) == lo + (Raw(s, k) % (hi - lo + 1))

FakeNameList == <<<<"X">>, <<"Y">>, <<"X", "a">>>>

\* self.faker.name() as the k-th call
faker_name(s, k) == FakeNameList[1 + (Raw(s, k) % Len(FakeNameList))]

\* random.choice([str(i) for i in range(10)] + ['X'])
RgLastDigits == Digits \o <<"X">>

\* the states the generators of a process are in when nothing has seeded them
Entropy == {2, 3}

\* Anonymizer.__init__ that leaves the module random as it was
init_without_random_seed(seed, entropy) ==
    IF seed # << >>
    THEN [faker |-> seed[1], random |-> entropy[2]]
    ELSE [faker |-> entropy[1], random |-> entropy[2]]

\* Anonymizer.__init__(seed): the states of Faker's generator and of the
\* module random after it; entropy is what they were in before
Anonymizer_init(seed, entropy) ==
    IF seed # << >>
    THEN [faker |-> seed[1], random |-> seed[1]]     \* Faker.seed(seed); random.seed(seed)
    ELSE [faker |-> entropy[1], random |-> entropy[2]]

\* the originals of a category among the entities, each counted once
Distinct(ents) == Cardinality({ents[i].text : i \in DOMAIN ents})

\* the values generate_replacements takes for the entities of a new
\* Anonymizer from generators in the states faker and random, each a record
\* of the seed it started from and the number of values taken since: a name
\* each person, then nine digits each CPF, then eight digits and a last
\* character each RG, then a number of days each date
StreamsFrom(faker, random, ents) ==
    LET nCpf == Distinct(ents["cpfs"])
        nRg == Distinct(ents["rgs"])
        randint(k, lo, hi) == RandInt(random.seed, random.taken + k, lo, hi)
    IN  [persons |-> [k \in 1..Len(ents["persons"]) |->
                        faker_name(faker.seed, faker.taken + k)],
         cpfs |-> [k \in 1..Len(ents["cpfs"]) |->
                     [j \in 1..9 |-> randint(9 * (k - 1) + j, 0, 9)]],
         rgs |-> [k \in 1..Len(ents["rgs"]) |->
                    << [j \in 1..8 |-> randint(9 * nCpf + 9 * (k - 1) + j, 0, 9)],
                       RgLastDigits[1 + randint(9 * nCpf + 9 * k, 0, 10)] >>],
         dates |-> [k \in 1..Len(ents["dates"]) |->
                      randint(9 * nCpf + 9 * nRg + k, 0, delta_days)]]

\* the same for generators just seeded: gen holds the seed of each
SeededStreams(gen, ents) ==
    StreamsFrom([seed |-> gen.faker, taken |-> 0], [seed |-> gen.random, taken |-> 0], ents)

\* Anonymizer(seed=seed).anonymize(text)
anonymizer_run(seed, entropy, t, doc_ents) ==
    LET gen == Anonymizer_init(seed, entropy)
        ents == detect_all(t, doc_ents)
        g == generate_replacements(EmptyMapping, ents, SeededStreams(gen, ents))
    IN  [ents |-> ents, mapping |-> g.mapping,
         anonymized_text |-> anonymize(t, g.mapping).anonymized_text]

\* the mapping of an Anonymizer as the value json serializes
ToPy(m) ==
    Mapping([i \in DOMAIN m["persons"] |-> Pair(m["persons"][i][1], m["persons"][i][2])],
            [i \in DOMAIN m["cpfs"] |-> Pair(m["cpfs"][i][1], m["cpfs"][i][2])],
            [i \in DOMAIN m["rgs"] |-> Pair(m["rgs"][i][1], m["rgs"][i][2])],
            [i \in DOMAIN m["dates"] |-> Pair(m["dates"][i][1], m["dates"][i][2])])

\* the value json.loads gave, as the mapping Anonymizer.reverse goes through
FromPy(v) ==
    [c \in Range(Categories) |->
        LET n == CHOOSE i \in 1..Len(Categories) : Categories[i] = c
            items == v[2][n][2][2]
        IN  [i \in DOMAIN items |-> <<items[i][1], items[i][2][2]>>]]

\* the tokens of the documents the front ends are run on
FlowVocabulary == {<<"a">>, DateToken}

\* --seed of the cli (None when it is not given), the number input of the app
Seeds(front) == IF front = "cli" THEN {<< >>, <<0>>, <<1>>} ELSE {<<0>>, <<1>>}

\* the seed the front end hands to Anonymizer
seed_argument(front, seed) ==
    IF front = "cli" THEN seed
    ELSE IF seed[1] > 0 THEN seed ELSE << >>         \* seed if seed > 0 else None

\* the passwords typed: none, the one of the anonymize runs, another one
FlowPasswords == {<< >>, <<"p">>, <<"x">>}

\* what os.urandom gives encrypt_mapping in a run: a salt, and the IV 0
Urandoms == Salts \X {0}

\* a file or a value that may be missing
Nothing == [there |-> FALSE, kind |-> "none", data |-> << >>]

\* path.write_text(text, encoding='utf-8'), text offered as a download
TextFile(t) == [there |-> TRUE, kind |-> "text", data |-> utf8_encode(t)]

\* a mapping file written as json, not encrypted
save_plain_mapping(mapping, password, urandom) ==
    [there |-> TRUE, kind |-> "text", data |-> utf8_encode(json_dumps(ToPy(mapping)))]

\* save_encrypted_mapping(mapping, password, filepath): the file it writes
save_encrypted_mapping(mapping, password, urandom) ==
    [there |-> TRUE, kind |-> "vault",
     data |-> encrypt_mapping(ToPy(mapping), password, urandom[1], 0, urandom[2])]

NoFiles == [output |-> Nothing, mapping_output |-> Nothing, restored |-> Nothing]

NoSession == [reverse_result |-> Nothing, anonymize_result |-> Nothing]

NoRun == [there |-> FALSE, seed |-> << >>, text |-> << >>, ents |-> NoEntities,
          mapping |-> EmptyMapping]

ThisRun == [there |-> fCmd = "anonymize" /\ fOutcome = "ok", seed |-> fSeed, text |-> fText,
            ents |-> fEnts, mapping |-> fMapping]

FlowStart ==
    /\ fRuns = 0
    /\ fFront = "none"
    /\ fCmd = "none"
    /\ fOutcome = "none"
    /\ fSeed = << >>
    /\ fText = << >>
    /\ fEnts = NoEntities
    /\ fMapping = EmptyMapping
    /\ fOutText = << >>
    /\ fDecrypt = NotCalled
    /\ fReverseCalled = FALSE
    /\ fWrote = NoFiles
    /\ fShown = Nothing
    /\ fSession = NoSession
    /\ fKept = [there |-> FALSE, text |-> << >>, file |-> Nothing, password |-> << >>]
    /\ fPrev = NoRun

\* the documents of an anonymize run: any document the first time, the same
\* document as the run before afterwards
Documents ==
    IF ThisRun.there
    THEN {[text |-> fText, doc_ents |-> [i \in DOMAIN fEnts["persons"] |->
                                           <<fEnts["persons"][i].start,
                                             fEnts["persons"][i].end, "PER">>]]}
    ELSE UNION { {[text |-> Flatten(tokens), doc_ents |-> d] : d \in DocEnts(tokens)} :
                 tokens \in SeqsOver(FlowVocabulary, 0, MaxFlowTokens) }

\* what an anonymize run leaves behind for a later reversal
Keep(text, file, password) ==
    IF fKept.there THEN fKept
    ELSE [there |-> TRUE, text |-> text, file |-> file, password |-> password]

\* lethe anonymize INPUT --password P [--seed N], cli.py
CliAnonymize ==
    /\ fRuns < MaxRuns
    /\ \E doc \in Documents, seed \in Seeds("cli"), entropy \in Entropy \X Entropy,
          password \in {<<"p">>}, urandom \in Urandoms :
       \E run \in {anonymizer_run(seed_argument("cli", seed), entropy, doc.text,
                                   doc.doc_ents)} :
       \E mapping_output \in {save_encrypted_mapping(run.mapping, password, urandom)} :
          LET output == TextFile(run.anonymized_text)
          IN  /\ fSeed' = seed_argument("cli", seed)
              /\ fText' = doc.text
              /\ IF nlp_property("None", modelFound).raised # "none"
                 THEN \* except Exception: raise typer.Exit(1)
                      /\ fOutcome' = "error"
                      /\ fEnts' = NoEntities
                      /\ fMapping' = EmptyMapping
                      /\ fOutText' = << >>
                      /\ fWrote' = NoFiles
                      /\ UNCHANGED fKept
                 ELSE /\ fOutcome' = "ok"
                      /\ fEnts' = run.ents
                      /\ fMapping' = run.mapping
                      /\ fOutText' = run.anonymized_text
                      /\ fWrote' = [NoFiles EXCEPT !.output = output,
                                                   !.mapping_output = mapping_output]
                      /\ fKept' = Keep(run.anonymized_text, mapping_output, password)
    /\ fRuns' = fRuns + 1
    /\ fFront' = "cli"
    /\ fCmd' = "anonymize"
    /\ fDecrypt' = NotCalled
    /\ fReverseCalled' = FALSE
    /\ fShown' = Nothing
    /\ fPrev' = ThisRun
    /\ UNCHANGED fSession
    /\ UNCHANGED notFlowVars

\* the results the app shows under the tabs, from st.session_state
downloads(session) ==
    [output |-> IF session.anonymize_result.there
                THEN TextFile(session.anonymize_result.anonymized_text) ELSE Nothing,
     mapping_output |-> IF session.anonymize_result.there
                        THEN session.anonymize_result.encrypted_mapping ELSE Nothing,
     restored |-> session.reverse_result]

\* the button "Anonimizar" of the app, app.py
AppAnonymize ==
    /\ fRuns < MaxRuns
    /\ \E doc \in Documents, seed \in Seeds("app"), entropy \in Entropy \X Entropy,
          password \in {<< >>, <<"p">>}, urandom \in Urandoms :
       \E run \in {anonymizer_run(seed_argument("app", seed), entropy, doc.text,
                                   doc.doc_ents)} :
       \E encrypted_mapping \in {save_encrypted_mapping(run.mapping, password, urandom)} :
          LET anonymize_result ==
                  [there |-> TRUE, anonymized_text |-> run.anonymized_text,
                   mapping |-> run.mapping, encrypted_mapping |-> encrypted_mapping]
              session == [fSession EXCEPT !.anonymize_result = anonymize_result]
          IN  /\ fSeed' = seed_argument("app", seed)
              /\ fText' = doc.text
              /\ IF doc.text = << >> \/ password = << >>
                 THEN \* st.warning
                      /\ fOutcome' = "warning"
                      /\ fEnts' = NoEntities
                      /\ fMapping' = EmptyMapping
                      /\ fOutText' = << >>
                      /\ fWrote' = downloads(fSession)
                      /\ fShown' = fSession.reverse_result
                      /\ UNCHANGED <<fSession, fKept>>
                 ELSE IF nlp_property("None", modelFound).raised # "none"
                 THEN \* st.error, raise e: the script stops there
                      /\ fOutcome' = "error"
                      /\ fEnts' = NoEntities
                      /\ fMapping' = EmptyMapping
                      /\ fOutText' = << >>
                      /\ fWrote' = NoFiles
                      /\ fShown' = Nothing
                      /\ UNCHANGED <<fSession, fKept>>
                 ELSE /\ fOutcome' = "ok"
                      /\ fEnts' = run.ents
                      /\ fMapping' = run.mapping
                      /\ fOutText' = run.anonymized_text
                      /\ fSession' = session
                      /\ fWrote' = downloads(session)
                      /\ fShown' = session.reverse_result
                      /\ fKept' = Keep(run.anonymized_text, encrypted_mapping, password)
    /\ fRuns' = fRuns + 1
    /\ fFront' = "app"
    /\ fCmd' = "anonymize"
    /\ fDecrypt' = NotCalled
    /\ fReverseCalled' = FALSE
    /\ fPrev' = ThisRun
    /\ UNCHANGED notFlowVars

\* decrypt_mapping on the bytes of a file; what is no token of the vault
\* does not pass the token's checks
read_mapping(file, password) ==
    IF file.kind = "vault" THEN decrypt_mapping(file.data, password) ELSE AuthError

\* The runs explored: an anonymize run, and then either anonymize runs of the
\* same document again, or reversals of what the first run left.
\* lethe reverse INPUT MAPPING --password P, cli.py
CliReverse ==
    /\ fRuns < MaxRuns
    /\ fKept.there
    /\ ~fPrev.there
    /\ \E password \in FlowPasswords \ {<< >>} :
       \E loaded \in {read_mapping(fKept.file, password)} :   \* load_encrypted_mapping
          LET mapping == FromPy(loaded.value)
              original_text == reverse(fKept.text, mapping)
          IN  /\ fDecrypt' = loaded
              /\ IF loaded.kind # "returned"
                 THEN \* except ValueError, except Exception: raise typer.Exit(1)
                      /\ fOutcome' = "error"
                      /\ fReverseCalled' = FALSE
                      /\ fMapping' = EmptyMapping
                      /\ fOutText' = << >>
                      /\ fWrote' = NoFiles
                 ELSE /\ fOutcome' = "ok"
                      /\ fReverseCalled' = TRUE
                      /\ fMapping' = mapping
                      /\ fOutText' = original_text
                      /\ fWrote' = [NoFiles EXCEPT !.restored = TextFile(original_text)]
    /\ fRuns' = fRuns + 1
    /\ fFront' = "cli"
    /\ fCmd' = "reverse"
    /\ fSeed' = << >>
    /\ fText' = fKept.text
    /\ fEnts' = NoEntities
    /\ fShown' = Nothing
    /\ fPrev' = NoRun
    /\ UNCHANGED <<fSession, fKept>>
    /\ UNCHANGED notFlowVars

\* the button "Reverter" of the app, app.py
AppReverse ==
    /\ fRuns < MaxRuns
    /\ fKept.there
    /\ ~fPrev.there
    /\ \E reverse_password \in FlowPasswords :
          IF fKept.text = << >> \/ reverse_password = << >>
          THEN \* st.warning
               /\ fDecrypt' = NotCalled
               /\ fOutcome' = "warning"
               /\ fReverseCalled' = FALSE
               /\ fMapping' = EmptyMapping
               /\ fOutText' = << >>
               /\ fWrote' = downloads(fSession)
               /\ fShown' = fSession.reverse_result
               /\ UNCHANGED fSession
          ELSE \E decrypted \in {read_mapping(fKept.file, reverse_password)} :
                  IF decrypted.kind # "returned"
                  THEN \* except ValueError, except Exception: st.error
                       /\ fDecrypt' = decrypted
                       /\ fOutcome' = "error"
                       /\ fReverseCalled' = FALSE
                       /\ fMapping' = EmptyMapping
                       /\ fOutText' = << >>
                       /\ fWrote' = downloads(fSession)
                       /\ fShown' = fSession.reverse_result
                       /\ UNCHANGED fSession
                  ELSE \E original_text \in {reverse(fKept.text, FromPy(decrypted.value))} :
                          LET session == [fSession EXCEPT
                                             !.reverse_result = TextFile(original_text)]
                          IN  /\ fDecrypt' = decrypted
                              /\ fOutcome' = "ok"
                              /\ fReverseCalled' = TRUE
                              /\ fMapping' = FromPy(decrypted.value)
                              /\ fOutText' = original_text
                              /\ fSession' = session
                              /\ fWrote' = downloads(session)
                              /\ fShown' = session.reverse_result
    /\ fRuns' = fRuns + 1
    /\ fFront' = "app"
    /\ fCmd' = "reverse"
    /\ fSeed' = << >>
    /\ fText' = fKept.text
    /\ fEnts' = NoEntities
    /\ fPrev' = NoRun
    /\ UNCHANGED fKept
    /\ UNCHANGED notFlowVars

FlowNext ==
    \/ CliAnonymize
    \/ AppAnonymize
    \/ CliReverse
    \/ AppReverse

(***************************************************************************)
(* Claims about the runs of the front ends.                                *)
(***************************************************************************)
\* the last run and the one before it were anonymize runs that ended well,
\* of the same text with the same entities, the Anonymizer of each made with
\* the same seed
SameSeedAgain ==
    /\ ThisRun.there
    /\ fPrev.there
    /\ fSeed # << >>
    /\ fPrev.seed = fSeed
    /\ fPrev.text = fText
    /\ fPrev.ents = fEnts

C16_FailedDecryptionRestoresNothing ==
    (fCmd = "reverse" /\ fDecrypt.kind = "raised") =>
        /\ ~fReverseCalled
        /\ ~fWrote.restored.there
        /\ ~fShown.there

\* the mapping of the files an anonymize run leaves: the one it made, or, in
\* the app when the run stopped at a warning, the one of the results shown
WrittenMapping ==
    IF fOutcome = "ok" THEN fMapping
    ELSE IF fSession.anonymize_result.there THEN fSession.anonymize_result.mapping
    ELSE EmptyMapping

\* C17: in every anonymize run the mapping reaches storage only as the output
\* of encrypt_mapping: the mapping file is what encrypt_mapping returned for
\* the mapping, and no file written holds the mapping as plain json.
C17_MappingWrittenOnlyEncrypted ==
    fCmd = "anonymize" =>
        /\ fWrote.mapping_output.there =>
              /\ fWrote.mapping_output.kind = "vault"
              /\ \E password \in FlowPasswords, urandom \in Urandoms :
                    fWrote.mapping_output.data =
                        encrypt_mapping(ToPy(WrittenMapping), password, urandom[1], 0,
                                        urandom[2])
        /\ \A f \in DOMAIN fWrote :
              (fWrote[f].there /\ fWrote[f].kind = "text") =>
                  fWrote[f].data # utf8_encode(json_dumps(ToPy(WrittenMapping)))

\* a run of the cli that wrote the mapping file of a mapping that is not empty
C17_Witness ==
    /\ fCmd = "anonymize"
    /\ fFront = "cli"
    /\ fOutcome = "ok"
    /\ fMapping # EmptyMapping
    /\ fWrote.mapping_output.there
    /\ fWrote.output.there

(***************************************************************************)
(* One Python process with two Anonymizers.  Faker.seed seeds the          *)
(* generator all Faker objects share, random.seed the generator of the     *)
(* module random; every Anonymizer of the process takes its values from    *)
(* these two.                                                              *)
(***************************************************************************)
Instances == 1..2

NotMade == [made |-> FALSE, seed |-> << >>, ran |-> FALSE, text |-> << >>,
            docEnts |-> << >>, mapping |-> EmptyMapping]

ProcStart ==
    /\ pStarted = FALSE
    /\ pFaker = [seed |-> 0, taken |-> 0]
    /\ pRandom = [seed |-> 0, taken |-> 0]
    /\ pInst = [i \in Instances |-> NotMade]

\* the process starts, its generators seeded from the system
StartProcess ==
    /\ ~pStarted
    /\ pStarted' = TRUE
    /\ \E entropy \in Entropy \X Entropy :
          /\ pFaker' = [seed |-> entropy[1], taken |-> 0]
          /\ pRandom' = [seed |-> entropy[2], taken |-> 0]
    /\ UNCHANGED pInst
    /\ UNCHANGED notProcVars

\* Anonymizer(seed=seed)
Construct(i) ==
    /\ pStarted
    /\ ~pInst[i].made
    /\ \E seed \in Seeds("cli") :
          /\ pInst' = [pInst EXCEPT ![i] = [NotMade EXCEPT !.made = TRUE, !.seed = seed]]
          /\ IF seed # << >>
             THEN /\ pFaker' = [seed |-> seed[1], taken |-> 0]      \* Faker.seed(seed)
                  /\ pRandom' = [seed |-> seed[1], taken |-> 0]     \* random.seed(seed)
             ELSE UNCHANGED <<pFaker, pRandom>>
    /\ UNCHANGED pStarted
    /\ UNCHANGED notProcVars

\* anonymize(text) on the i-th Anonymizer
AnonymizeOn(i) ==
    /\ pInst[i].made
    /\ ~pInst[i].ran
    /\ \E tokens \in SeqsOver(FlowVocabulary, 0, MaxFlowTokens) :
          \E doc_ents \in DocEnts(tokens) :
             LET t == Flatten(tokens)
                 ents == detect_all(t, doc_ents)
                 g == generate_replacements(EmptyMapping, ents,
                                            StreamsFrom(pFaker, pRandom, ents))
             IN  /\ pInst' = [pInst EXCEPT ![i].ran = TRUE, ![i].text = t,
                                           ![i].docEnts = doc_ents,
                                           ![i].mapping = g.mapping]
                 /\ pFaker' = [pFaker EXCEPT !.taken = @ + Distinct(ents["persons"])]
                 /\ pRandom' = [pRandom EXCEPT !.taken = @ + 9 * Distinct(ents["cpfs"])
                                                          + 9 * Distinct(ents["rgs"])
                                                          + Distinct(ents["dates"])]
    /\ UNCHANGED pStarted
    /\ UNCHANGED notProcVars

ProcNext ==
    \/ StartProcess
    \/ \E i \in Instances : Construct(i)
    \/ \E i \in Instances : AnonymizeOn(i)

\* C26: the replacements an Anonymizer made with a seed generates are those
\* its seed and the entities it processes give, whatever other Anonymizers
\* were made or used between its construction and its anonymize call.
C26_SeededReplacementsOfTheInstanceOnly ==
    \A i \in Instances :
       (pInst[i].ran /\ pInst[i].seed # << >>) =>
           pInst[i].mapping =
               anonymizer_run(pInst[i].seed, <<0, 0>>, pInst[i].text, pInst[i].docEnts).mapping

(***************************************************************************)
(* The specifications.                                                     *)
(***************************************************************************)
Init ==
    ValStart /\ VaultStart /\ AnonStart /\ DetStart /\ FlowStart /\ GenStart /\ ProcStart

SpecValidators == Init /\ [][ValNext]_vars

SpecVault == Init /\ [][VaultNext]_vars

Spec == Init /\ [][Next]_vars

SpecDetector == Init /\ [][DetNext]_vars

SpecFlow == Init /\ [][FlowNext]_vars

SpecGenerators == Init /\ [][GenNext]_vars

SpecProcess == Init /\ [][ProcNext]_vars

=============================================================================
